---- MODULE Spec2Model ----
(***************************************************************************)
(* A model of the memex targeted search server: the SearchIndex class      *)
(* (src/src/SearchIndex.ts) and the tool layer that calls it               *)
(* (src/src/index.ts).                                                     *)
(*                                                                         *)
(* Text is a sequence of one-character strings, so that the regular        *)
(* expressions, trims, splits and substring tests of the code are computed *)
(* and not assumed.  A relational table is the sequence of its rows in     *)
(* rowid order; a full-text mirror is the sequence of the rows inserted    *)
(* into the FTS5 table.                                                    *)
(***************************************************************************)
EXTENDS Integers, Sequences, FiniteSets, TLC

(***************************************************************************)
(* Characters and character classes of the JavaScript regular expressions. *)
(***************************************************************************)
NL == "\n"

\* the backtick character, as an atom: the lexer accepts no backtick inside a string
Tick == "BACKTICK"

LowerSeq == << "a","b","c","d","e","f","g","h","i","j","k","l","m",
               "n","o","p","q","r","s","t","u","v","w","x","y","z" >>

UpperSeq == << "A","B","C","D","E","F","G","H","I","J","K","L","M",
               "N","O","P","Q","R","S","T","U","V","W","X","Y","Z" >>

Digits == { "0","1","2","3","4","5","6","7","8","9" }

Range(s) == { s[i] : i \in DOMAIN s }

UpperChars == Range(UpperSeq)

\* String.prototype.toLowerCase, one character
LowerChar(c) ==
    IF c \in UpperChars
    THEN LowerSeq[CHOOSE i \in DOMAIN UpperSeq : UpperSeq[i] = c]
    ELSE c

\* String.prototype.toLowerCase
toLowerCase(s) == [ i \in DOMAIN s |-> LowerChar(s[i]) ]

WordChars == Range(LowerSeq) \cup Range(UpperSeq) \cup Digits \cup { "_" }

SpaceChars == { " ", "\t", NL, "\r" }

TokenChars == Range(LowerSeq) \cup Range(UpperSeq) \cup Digits

\* \w
IsWord(c) == c \in WordChars

\* \s
IsSpace(c) == c \in SpaceChars

\* a character the unicode61 tokenizer of FTS5 keeps inside a token
IsTokenChar(c) == c \in TokenChars

(***************************************************************************)
(* String operations.                                                      *)
(***************************************************************************)
\* s.slice(from) with a 1-based first position
DropTo(s, from) == IF from > Len(s) THEN << >> ELSE SubSeq(s, from, Len(s))

\* s.startsWith(p) at position i (1-based)
MatchAt(s, i, p) ==
    /\ i >= 1
    /\ i + Len(p) - 1 <= Len(s)
    /\ \A k \in 1..Len(p) : s[i + k - 1] = p[k]

\* String.prototype.includes
includes(s, p) == \E i \in 1..(Len(s) + 1) : MatchAt(s, i, p)

\* String.prototype.endsWith
endsWith(s, p) == Len(p) <= Len(s) /\ MatchAt(s, Len(s) - Len(p) + 1, p)

\* the first position at or after i whose character is not white space (Len+1 if none)
SkipSpace(s, i) ==
    IF \E j \in i..Len(s) : ~IsSpace(s[j])
    THEN CHOOSE j \in i..Len(s) : ~IsSpace(s[j]) /\ \A k \in i..(j - 1) : IsSpace(s[k])
    ELSE Len(s) + 1

\* the first position at or after i whose character is not a word character
SkipWord(s, i) ==
    IF \E j \in i..Len(s) : ~IsWord(s[j])
    THEN CHOOSE j \in i..Len(s) : ~IsWord(s[j]) /\ \A k \in i..(j - 1) : IsWord(s[k])
    ELSE Len(s) + 1

\* String.prototype.trim
trim(s) ==
    LET a == SkipSpace(s, 1)
    IN  IF a > Len(s) THEN << >>
        ELSE LET b == CHOOSE j \in a..Len(s) :
                        ~IsSpace(s[j]) /\ \A k \in (j + 1)..Len(s) : IsSpace(s[k])
             IN  SubSeq(s, a, b)

\* content.split('\n')
RECURSIVE split(_)
split(s) ==
    IF \E i \in DOMAIN s : s[i] = NL
    THEN LET i == CHOOSE i \in DOMAIN s : s[i] = NL /\ \A k \in 1..(i - 1) : s[k] # NL
         IN  << SubSeq(s, 1, i - 1) >> \o split(DropTo(s, i + 1))
    ELSE << s >>

\* lines.join('\n')
RECURSIVE join(_)
join(lines) ==
    IF lines = << >> THEN << >>
    ELSE IF Len(lines) = 1 THEN lines[1]
    ELSE lines[1] \o << NL >> \o join(Tail(lines))

Max(a, b) == IF a >= b THEN a ELSE b

Min(a, b) == IF a <= b THEN a ELSE b

\* Array.prototype.slice(0, n) for n >= 0
Take(s, n) == SubSeq(s, 1, Min(n, Len(s)))

(***************************************************************************)
(* Content Classifier (SearchIndex.detectContentType).                     *)
(***************************************************************************)
\* a literal of the source as a sequence of characters
Npm == << "n","p","m" >>
Yarn == << "y","a","r","n" >>
Pnpm == << "p","n","p","m" >>
Git == << "g","i","t" >>
Python == << "p","y","t","h","o","n" >>
Py == << "p","y" >>
Node == << "n","o","d","e" >>
Tsx == << "t","s","x" >>
Docker == << "d","o","c","k","e","r" >>
Curl == << "c","u","r","l" >>
Wget == << "w","g","e","t" >>
Cd == << "c","d" >>
Ls == << "l","s" >>
Mkdir == << "m","k","d","i","r" >>
Cp == << "c","p" >>
Mv == << "m","v" >>
Rm == << "r","m" >>
Firebase == << "f","i","r","e","b","a","s","e" >>
Memex == << "m","e","m","e","x" >>
Sudo == << "s","u","d","o" >>

\* /X\s+\w+/ matched at position i: X, then white space, then a word character
LitSpaceWordAt(s, i, lit) ==
    /\ MatchAt(s, i, lit)
    /\ LET j == i + Len(lit)
           k == SkipSpace(s, j)
       IN  k > j /\ k <= Len(s) /\ IsWord(s[k])

\* /X\s+\w+/ anywhere (the i flag is applied by the caller through toLowerCase)
LitSpaceWord(s, lit) == \E i \in DOMAIN s : LitSpaceWordAt(s, i, lit)

\* /--\w+/
LongFlag(s) == \E i \in DOMAIN s : MatchAt(s, i, << "-", "-" >>) /\ i + 2 <= Len(s) /\ IsWord(s[i + 2])

\* /^\s*>\s+/m : at the start of a line, white space, '>', white space
QuoteLine(s) ==
    \E i \in DOMAIN s :
        /\ i = 1 \/ s[i - 1] = NL
        /\ LET j == SkipSpace(s, i)
           IN  j + 1 <= Len(s) /\ s[j] = ">" /\ IsSpace(s[j + 1])

hasCommandPatterns(content) ==
    \/ LitSpaceWord(content, << "$" >>)
    \/ LitSpaceWord(toLowerCase(content), Npm)
    \/ LitSpaceWord(toLowerCase(content), Git)
    \/ LitSpaceWord(toLowerCase(content), Python)
    \/ LitSpaceWord(toLowerCase(content), Node)
    \/ LongFlag(content)
    \/ QuoteLine(content)

\* MemexSearchServer.hasCommandPatterns of index.ts: the copy without the '>' pattern
serverHasCommandPatterns(content) ==
    \/ LitSpaceWord(content, << "$" >>)
    \/ LitSpaceWord(toLowerCase(content), Npm)
    \/ LitSpaceWord(toLowerCase(content), Git)
    \/ LitSpaceWord(toLowerCase(content), Python)
    \/ LitSpaceWord(toLowerCase(content), Node)
    \/ LongFlag(content)

\* the classifier with the command test ahead of the code test
detectCommandFirst(content) ==
    IF hasCommandPatterns(content) THEN "command"
    ELSE IF includes(content, << Tick >>) THEN "code"
    ELSE "text"

detectContentType(content) ==
    IF includes(content, << Tick, Tick, Tick >>) \/ includes(content, << Tick >>) THEN "code"
    ELSE IF hasCommandPatterns(content) THEN "command"
    ELSE "text"

(***************************************************************************)
(* Command Extractor (SearchIndex.extractCommands and its helpers).        *)
(***************************************************************************)
\* the lengths a backtick span must lie between (exclusive)
MinSpanLen == 3

MaxSpanLen == 150

\* the lengths looksLikeCommand accepts (inclusive)
MinLooksLen == 3

MaxLooksLen == 200

\* confidence in tenths: 0.9 for both extraction passes
BacktickConfidence == 9

LineConfidence == 9

\* /^(npm|yarn|pnpm|...|memex)\s/i
ToolNames == { Npm, Yarn, Pnpm, Git, Python, Py, Node, Tsx, Docker, Curl, Wget,
               Cd, Ls, Mkdir, Cp, Mv, Rm, Firebase, Memex }

StartsWithTool(t) ==
    \E w \in ToolNames :
        /\ MatchAt(toLowerCase(t), 1, w)
        /\ Len(t) > Len(w) /\ IsSpace(t[Len(w) + 1])

\* /^\w+\s+--?\w+/
WordThenFlag(t) ==
    \E a \in { SkipWord(t, 1) } :
        \E b \in { SkipSpace(t, a) } :
            /\ a > 1 /\ b > a /\ b <= Len(t) /\ t[b] = "-"
            /\ \/ b + 1 <= Len(t) /\ IsWord(t[b + 1])
               \/ b + 2 <= Len(t) /\ t[b + 1] = "-" /\ IsWord(t[b + 2])

\* /^\$\s+/
DollarPrompt(t) == Len(t) >= 2 /\ t[1] = "$" /\ IsSpace(t[2])

\* /^sudo\s+/i
SudoPrefix(t) == MatchAt(toLowerCase(t), 1, Sudo) /\ Len(t) > 4 /\ IsSpace(t[5])

\* /\.sh$|\.py$|\.js$|\.ts$/
ScriptSuffix(t) ==
    \/ endsWith(t, << ".", "s", "h" >>)
    \/ endsWith(t, << ".", "p", "y" >>)
    \/ endsWith(t, << ".", "j", "s" >>)
    \/ endsWith(t, << ".", "t", "s" >>)

Verbs == { << "i","n","s","t","a","l","l" >>, << "b","u","i","l","d" >>,
           << "s","t","a","r","t" >>, << "d","e","p","l","o","y" >>,
           << "l","o","g","i","n" >>, << "i","n","i","t" >>,
           << "c","r","e","a","t","e" >>, << "r","u","n" >>, << "t","e","s","t" >> }

\* the first position at or after i whose character is not in [a-zA-Z0-9_-]
SkipIdent(s, i) ==
    IF \E j \in i..Len(s) : ~(IsWord(s[j]) \/ s[j] = "-")
    THEN CHOOSE j \in i..Len(s) :
            /\ ~(IsWord(s[j]) \/ s[j] = "-")
            /\ \A k \in i..(j - 1) : IsWord(s[k]) \/ s[k] = "-"
    ELSE Len(s) + 1

\* /^[a-zA-Z0-9_-]+\s+(install|build|...|test)\b/i
IdentThenVerb(t) ==
    \E a \in { SkipIdent(t, 1) } :
        \E b \in { SkipSpace(t, a) } :
            /\ a > 1 /\ b > a
            /\ \E v \in Verbs :
                  /\ MatchAt(toLowerCase(t), b, v)
                  /\ b + Len(v) > Len(t) \/ ~IsWord(t[b + Len(v)])

\* /^[\w\s\-=\.\/]+$/
PlainParameterSyntax(t) ==
    /\ t # << >>
    /\ \A i \in DOMAIN t : IsWord(t[i]) \/ IsSpace(t[i]) \/ t[i] \in { "-", "=", ".", "/" }

looksLikeCommand(text) ==
    \E trimmed \in { trim(text) } :
        /\ ~(Len(trimmed) > MaxLooksLen \/ Len(trimmed) < MinLooksLen)
        /\ (\E i \in DOMAIN trimmed : trimmed[i] \in { "{", "}", "(", ")" })
              => PlainParameterSyntax(trimmed)
        /\ \/ StartsWithTool(trimmed)
           \/ WordThenFlag(trimmed)
           \/ DollarPrompt(trimmed)
           \/ SudoPrefix(trimmed)
           \/ ScriptSuffix(trimmed)
           \/ IdentThenVerb(trimmed)

\* /^(npm|yarn|git|python|node|docker|curl|firebase|memex)/
CliNames == { Npm, Yarn, Git, Python, Node, Docker, Curl, Firebase, Memex }

\* /--?\w+/
AnyFlag(s) == \E i \in DOMAIN s : s[i] = "-" /\ i + 1 <= Len(s) /\ IsWord(s[i + 1])

classifyCommand(command) ==
    IF \E w \in CliNames : MatchAt(command, 1, w) THEN "cli"
    ELSE IF AnyFlag(command) THEN "config"
    ELSE "code"

getContextAround(lines, lineIndex, contextLines) ==
    LET start == Max(0, lineIndex - contextLines)
        end   == Min(Len(lines), lineIndex + contextLines + 1)
    IN  trim(join(SubSeq(lines, start + 1, end)))

getCommandContext(lines, command) ==
    IF \E i \in DOMAIN lines : includes(lines[i], command)
    THEN LET i == CHOOSE i \in DOMAIN lines :
                    /\ includes(lines[i], command)
                    /\ \A k \in 1..(i - 1) : ~includes(lines[k], command)
         IN  getContextAround(lines, i - 1, 1)
    ELSE << >>

\* content.match(/`([^`\n]+)`/g), scanning from position i: the spans between the ticks
RECURSIVE BacktickSpans(_, _)
BacktickSpans(s, i) ==
    IF i > Len(s) THEN << >>
    ELSE IF s[i] # Tick THEN BacktickSpans(s, i + 1)
    ELSE IF \E j \in (i + 1)..Len(s) : s[j] \in { Tick, NL }
         THEN LET j == CHOOSE j \in (i + 1)..Len(s) :
                          /\ s[j] \in { Tick, NL }
                          /\ \A k \in (i + 1)..(j - 1) : s[k] \notin { Tick, NL }
              IN  IF s[j] = Tick /\ j > i + 1
                  THEN << SubSeq(s, i + 1, j - 1) >> \o BacktickSpans(s, j + 1)
                  ELSE BacktickSpans(s, i + 1)
         ELSE << >>

\* extractLineCommands: line.match(/\$\s*(.+)/), at most one command per line
extractLineCommands(line) ==
    IF \E i \in DOMAIN line : line[i] = "$" /\ i < Len(line)
    THEN LET i == CHOOSE i \in DOMAIN line :
                    /\ line[i] = "$" /\ i < Len(line)
                    /\ \A k \in 1..(i - 1) : ~(line[k] = "$" /\ k < Len(line))
             j == SkipSpace(line, i + 1)
             captured == IF j <= Len(line) THEN DropTo(line, j) ELSE << line[Len(line)] >>
         IN  << [ command |-> trim(captured), type |-> "cli", confidence |-> LineConfidence ] >>
    ELSE << >>

\* match.slice(1, -1).trim() of every span
TrimAll(spans) == [ i \in DOMAIN spans |-> trim(spans[i]) ]

\* cmd.length > 3 && cmd.length < 150 && this.looksLikeCommand(cmd)
AcceptedSpan(cmd) == Len(cmd) > MinSpanLen /\ Len(cmd) < MaxSpanLen /\ looksLikeCommand(cmd)

\* the commands the backtick pass pushes for the accepted spans, without their id
SpanCommands(kept, lines, conversationId, messageIndex) ==
    [ i \in DOMAIN kept |->
        [ conversation_id |-> conversationId,
          message_index   |-> messageIndex,
          command         |-> kept[i],
          command_type    |-> classifyCommand(kept[i]),
          context         |-> getCommandContext(lines, kept[i]),
          confidence      |-> BacktickConfidence ] ]

\* the backtick pass: the accepted spans as commands without their id
BacktickCommands(content, conversationId, messageIndex) ==
    SpanCommands(SelectSeq(TrimAll(BacktickSpans(content, 1)), AcceptedSpan),
                 split(content), conversationId, messageIndex)

\* the commands the line pass pushes for what extractLineCommands found in line i
LineRows(found, lines, i, conversationId, messageIndex) ==
    [ k \in DOMAIN found |->
        [ conversation_id |-> conversationId,
          message_index   |-> messageIndex,
          command         |-> found[k].command,
          command_type    |-> found[k].type,
          context         |-> getContextAround(lines, i - 1, 1),
          confidence      |-> found[k].confidence ] ]

\* the line pass over lines[i..]
RECURSIVE LineCommands(_, _, _, _)
LineCommands(lines, i, conversationId, messageIndex) ==
    IF i > Len(lines) THEN << >>
    ELSE LineRows(extractLineCommands(lines[i]), lines, i, conversationId, messageIndex)
         \o LineCommands(lines, i + 1, conversationId, messageIndex)

\* the id of the n-th command (0-based) of a message: cmd_<conversation>_<message>_<n>
CommandId(conversationId, messageIndex, n) == << "cmd", conversationId, messageIndex, n >>

\* commands.push({ id: `cmd_..._${commands.length}`, ... }): the id counts the commands
\* of the message found so far
NumberCommands(found, conversationId, messageIndex) ==
    [ n \in DOMAIN found |->
        [ id              |-> CommandId(conversationId, messageIndex, n - 1),
          conversation_id |-> found[n].conversation_id,
          message_index   |-> found[n].message_index,
          command         |-> found[n].command,
          command_type    |-> found[n].command_type,
          context         |-> found[n].context,
          confidence      |-> found[n].confidence ] ]

extractCommands(content, conversationId, messageIndex) ==
    NumberCommands(BacktickCommands(content, conversationId, messageIndex)
                   \o LineCommands(split(content), 1, conversationId, messageIndex),
                   conversationId, messageIndex)

(***************************************************************************)
(* Values.  An optional value (undefined, null or SQL NULL when absent) is *)
(* the empty sequence or the one-element sequence of the value.            *)
(***************************************************************************)
None == << >>

Some(v) == << v >>

IsSome(o) == o # << >>

\* o || dflt for an optional text: undefined and the empty string are both falsy
OrElse(o, dflt) == IF IsSome(o) /\ o[1] # << >> THEN o[1] ELSE dflt

\* a destructuring default for an optional number: only undefined takes the default
OrDefault(o, dflt) == IF IsSome(o) THEN o[1] ELSE dflt

(***************************************************************************)
(* The archive: the conversation files of the history directory.           *)
(* A file either fails to read or parse (ok = FALSE) or is the parsed      *)
(* object: metadata.conversation_id, title, summary, metadata.created_at,  *)
(* metadata.project, the two turn counts and the messages array, whose     *)
(* entries are null (None) or an object with a role and a content.         *)
(***************************************************************************)
\* the largest number of files in the archive
MaxFiles == 2

\* the name of the i-th entry of the directory listing
FileName(i) == << "f", ToString(i), ".", "j", "s", "o", "n" >>

P1 == << "p", "1" >>

P2 == << "p", "2" >>

Y2023 == << "2", "0", "2", "3" >>

Y2024 == << "2", "0", "2", "4" >>

Y2024Jan == << "2", "0", "2", "4", "-", "0", "1" >>

Msg(content) == Some([ role |-> "user", content |-> content ])

\* a file that cannot be read or parsed
BadFile == [ ok |-> FALSE ]

\* a conversation_id equal to the name of the first file; two messages with one cli
\* command each, the first message too short for the mirror
FileA ==
    [ ok |-> TRUE, conversation_id |-> Some(FileName(1)), title |-> Some(Npm),
      summary |-> None, created_at |-> Some(Y2024Jan), project |-> Some(P1),
      user_turn_count |-> 1, assistant_turn_count |-> 1,
      messages |-> Some(<< Msg(<< Tick, "n", "p", "m", " ", "c", "i", Tick >>), Msg(<< Tick, "g", "i", "t", " ", "s", "t", "a", "t", "u", "s", Tick >>) >>) ]

\* the same conversation_id as FileA with other content; one message with a config
\* command in backticks and a cli command after a prompt
FileB ==
    [ ok |-> TRUE, conversation_id |-> Some(FileName(1)), title |-> Some(Git),
      summary |-> Some(Npm), created_at |-> Some(Y2023), project |-> Some(P2),
      user_turn_count |-> 1, assistant_turn_count |-> 0,
      messages |-> Some(<< Msg(<< Tick, "l", "s", " ", "-", "a", Tick, " ", "$", " ", "n", "p", "m", " ", "t", "e", "s", "t" >>) >>) ]

\* no conversation_id (the file name is used), no project, no date; an empty content,
\* a message with four commands, a null entry and a message after it
FileC ==
    [ ok |-> TRUE, conversation_id |-> None, title |-> Some(Npm), summary |-> None,
      created_at |-> None, project |-> None,
      user_turn_count |-> 0, assistant_turn_count |-> 0,
      messages |-> Some(<< Msg(<< >>), Msg(<< Tick, "n", "p", "m", " ", "i", Tick, Tick, "n", "p", "m", " ", "i", Tick, Tick, "n", "p", "m", " ", "i", Tick, Tick, "n", "p", "m", " ", "i", Tick >>), None, Msg(<< "h", "e", "l", "l", "o" >>) >>) ]

FileUniverse == { BadFile, FileA, FileB, FileC }

Archives == UNION { [ 1..n -> FileUniverse ] : n \in 0..MaxFiles }

(***************************************************************************)
(* Schema Store: the six tables and their statements.                      *)
(***************************************************************************)
EmptyDb ==
    [ conversations |-> << >>, conversations_fts |-> << >>,
      messages |-> << >>, messages_fts |-> << >>,
      commands |-> << >>, commands_fts |-> << >> ]

\* the tables in the order in which clearIndex empties them
ClearOrder == << "conversations", "conversations_fts", "messages", "messages_fts",
                 "commands", "commands_fts" >>

Ids(table) == { table[i].id : i \in DOMAIN table }

\* a DELETE that removes nothing: the faulty variant of DeleteFrom
DeleteNothing(table, ids) == table

\* DELETE FROM table, for the rows whose primary key is in ids: what DELETE and the
\* conflict resolution of INSERT OR REPLACE do to a relational table
DeleteFrom(table, ids) ==
    LET keep(r) == r.id \notin ids IN SelectSeq(table, keep)

\* the statement DELETE FROM <name> of clearIndex; a mirror has no key and is emptied whole
DeleteAll(d, name) ==
    IF name \in { "conversations", "messages", "commands" }
    THEN [ d EXCEPT ![name] = DeleteFrom(d[name], Ids(d[name])) ]
    ELSE [ d EXCEPT ![name] = << >> ]

\* a plain INSERT that ignores both keys: the faulty variant of UpsertConversation
UpsertConversationAppend(table, row) == Append(table, row)

\* INSERT OR REPLACE INTO conversations: id is the primary key, conversation_id is UNIQUE
UpsertConversation(table, row) ==
    LET clash == { r \in Range(table) :
                     r.id = row.id \/ r.conversation_id = row.conversation_id }
    IN  Append(DeleteFrom(table, { r.id : r \in clash }), row)

\* a plain INSERT that ignores the key: the faulty variant of UpsertById
AppendById(table, row) == Append(table, row)

\* INSERT OR REPLACE INTO messages / commands: id is the primary key
UpsertById(table, row) == Append(DeleteFrom(table, { row.id }), row)

\* INSERT OR REPLACE INTO an FTS5 table without a rowid: the table has no other key, so
\* nothing conflicts and the row is added
InsertMirror(table, row) == Append(table, row)

\* the rows insertConversations writes for one conversation
RECURSIVE insertConversations(_, _)
insertConversations(d, convs) ==
    IF convs = << >> THEN d
    ELSE LET conv == Head(convs)
             d1 == [ d EXCEPT
                       !.conversations = UpsertConversation(@, conv),
                       !.conversations_fts = InsertMirror(@,
                           [ conversation_id |-> conv.conversation_id,
                             title |-> conv.title,
                             summary |-> conv.summary,
                             project |-> OrElse(conv.project, << >>) ]) ]
         IN  insertConversations(d1, Tail(convs))

\* only content longer than this is written to messages_fts
MinMirrorContent == 10

RECURSIVE insertMessages(_, _)
insertMessages(d, msgs) ==
    IF msgs = << >> THEN d
    ELSE LET msg == Head(msgs)
             d1 == [ d EXCEPT
                       !.messages = UpsertById(@, msg),
                       !.messages_fts =
                           IF msg.content # << >> /\ Len(msg.content) > MinMirrorContent
                           THEN InsertMirror(@, [ conversation_id |-> msg.conversation_id,
                                                  content |-> msg.content ])
                           ELSE @ ]
         IN  insertMessages(d1, Tail(msgs))

RECURSIVE insertCommands(_, _)
insertCommands(d, cmds) ==
    IF cmds = << >> THEN d
    ELSE LET cmd == Head(cmds)
             d1 == [ d EXCEPT
                       !.commands = UpsertById(@, cmd),
                       !.commands_fts = InsertMirror(@,
                           [ conversation_id |-> cmd.conversation_id,
                             command |-> cmd.command,
                             context |-> cmd.context ]) ]
         IN  insertCommands(d1, Tail(cmds))

\* getStats: the three COUNT(*) of the relational tables
getStats(d) ==
    [ conversations |-> Len(d.conversations),
      messages      |-> Len(d.messages),
      commands      |-> Len(d.commands) ]

(***************************************************************************)
(* Ingestion: what processBatch derives from one file.                     *)
(***************************************************************************)
\* the rows of messages[i..] (0-based i) and their commands, up to the first entry whose
\* content cannot be read (a null entry throws, and the catch skips the rest of the file)
RECURSIVE MessageRows(_, _, _)
MessageRows(msgs, i, cid) ==
    IF i >= Len(msgs) THEN [ messages |-> << >>, commands |-> << >> ]
    ELSE LET entry == msgs[i + 1]
         IN  IF ~IsSome(entry) THEN [ messages |-> << >>, commands |-> << >> ]
             ELSE LET msg  == entry[1]
                      rest == MessageRows(msgs, i + 1, cid)
                  IN  IF msg.content = << >> THEN rest
                      ELSE [ messages |->
                               << [ id |-> << "msg", cid, i >>,
                                    conversation_id |-> cid,
                                    message_index |-> i,
                                    role |-> msg.role,
                                    content |-> msg.content,
                                    content_type |-> detectContentType(msg.content) ] >>
                               \o rest.messages,
                             commands |-> extractCommands(msg.content, cid, i) \o rest.commands ]

\* the conversation row of a parsed file
ConversationRow(data, file) ==
    LET cid == OrElse(data.conversation_id, file)
    IN  [ id |-> << "conv", cid >>,
          conversation_id |-> cid,
          title |-> OrElse(data.title, << >>),
          summary |-> OrElse(data.summary, << >>),
          created_at |-> OrElse(data.created_at, << >>),
          project |-> data.project,
          file_path |-> file,
          message_count |-> data.user_turn_count + data.assistant_turn_count ]

\* the body of the loop of processBatch for one file: the rows it pushes
FileRows(conv, rows) ==
    [ conversations |-> << conv >>, messages |-> rows.messages, commands |-> rows.commands ]

ProcessFile(data, file) ==
    IF ~data.ok
    THEN [ conversations |-> << >>, messages |-> << >>, commands |-> << >> ]
    ELSE FileRows(ConversationRow(data, file),
                  IF IsSome(data.messages)
                  THEN MessageRows(data.messages[1], 0, OrElse(data.conversation_id, file))
                  ELSE [ messages |-> << >>, commands |-> << >> ])

(***************************************************************************)
(* Query Engine: the SQL of searchConversations and searchCommands.        *)
(***************************************************************************)
\* the characters in code-point order, for the BINARY collation of TEXT comparisons
CodePoints ==
    << "\t", NL, "\r", " ", "$", "(", ")", "-", ".", "/",
       "0", "1", "2", "3", "4", "5", "6", "7", "8", "9", "=", ">" >>
    \o UpperSeq \o << "_", Tick >> \o LowerSeq \o << "{", "}" >>

Ord(c) == CHOOSE i \in DOMAIN CodePoints : CodePoints[i] = c

\* a <= b for two TEXT values: byte-wise, a proper prefix is smaller
RECURSIVE TextLeq(_, _)
TextLeq(a, b) ==
    IF a = << >> THEN TRUE
    ELSE IF b = << >> THEN FALSE
    ELSE IF Head(a) = Head(b) THEN TextLeq(Tail(a), Tail(b))
    ELSE Ord(Head(a)) < Ord(Head(b))

\* the default tokenizer: a token is a maximal run of letters and digits, compared in
\* lower case; the query word is a token of s that starts at position i
TokenAt(s, i, word) ==
    /\ i = 1 \/ ~IsTokenChar(s[i - 1])
    /\ i + Len(word) - 1 <= Len(s)
    /\ \A k \in DOMAIN word : LowerChar(s[i + k - 1]) = word[k]
    /\ i + Len(word) > Len(s) \/ ~IsTokenChar(s[i + Len(word)])

\* how often the one-word query occurs in the columns of a mirror row
RECURSIVE Occurrences(_, _)
Occurrences(columns, query) ==
    IF columns = << >> THEN 0
    ELSE Cardinality({ i \in DOMAIN columns[1] :
                          TokenAt(columns[1], i, toLowerCase(query)) })
         + Occurrences(Tail(columns), query)

ConversationColumns(f) == << f.conversation_id, f.title, f.summary, f.project >>

CommandColumns(f) == << f.conversation_id, f.command, f.context >>

\* <mirror> MATCH ? for a query of one bare word: some column holds the token
Match(columns, query) == Occurrences(columns, query) > 0

\* bm25(<mirror>): lower is better; here the negated number of occurrences
Bm25(columns, query) == 0 - Occurrences(columns, query)

\* the result rows as the join yields them, without ORDER BY
JoinOrder(rows) == rows

\* the result rows in the order ORDER BY gives them: a stable insertion by the sort key
RECURSIVE OrderBy(_)
OrderBy(rows) ==
    IF rows = << >> THEN << >>
    ELSE LET sorted == OrderBy(SubSeq(rows, 1, Len(rows) - 1))
             r      == rows[Len(rows)]
             \* r goes before the first row whose key is strictly larger
             at     == IF \E j \in DOMAIN sorted : r.key < sorted[j].key
                       THEN CHOOSE j \in DOMAIN sorted :
                               /\ r.key < sorted[j].key
                               /\ \A k \in 1..(j - 1) : ~(r.key < sorted[k].key)
                       ELSE Len(sorted) + 1
         IN  SubSeq(sorted, 1, at - 1) \o << r >> \o SubSeq(sorted, at, Len(sorted))

\* the rows handed to the caller: { type, item, score: row.rank || 0 }
Results(rows) ==
    [ j \in DOMAIN rows |->
        [ type |-> rows[j].type, item |-> rows[j].item, score |-> rows[j].score ] ]

\* LIMIT n: a negative n is no limit
SqlLimit(rows, n) == IF n < 0 THEN rows ELSE Take(rows, n)

\* the limit of a search when options.limit is undefined
DefaultLimit == 10

\* a JavaScript truthiness test of an optional string
Truthy(o) == IsSome(o) /\ o[1] # << >>

\* the WHERE clause without its project condition: the faulty variant of ConversationFilter
ConversationFilterNoProject(c, options) ==
    /\ Truthy(options.dateFrom) => TextLeq(options.dateFrom[1], c.created_at)
    /\ Truthy(options.dateTo) => TextLeq(c.created_at, options.dateTo[1])

\* WHERE ... AND c.project = ? AND c.created_at >= ? AND c.created_at <= ?
ConversationFilter(c, options) ==
    /\ Truthy(options.project) => (IsSome(c.project) /\ c.project[1] = options.project[1])
    /\ Truthy(options.dateFrom) => TextLeq(options.dateFrom[1], c.created_at)
    /\ Truthy(options.dateTo) => TextLeq(c.created_at, options.dateTo[1])

\* FROM conversations c JOIN conversations_fts ON conversations_fts.conversation_id =
\* c.conversation_id WHERE conversations_fts MATCH ?: for the mirror rows from f on
\* SELECT c.*, bm25(conversations_fts) as rank: the joined rows of one mirror row
RankedConversations(hits, rank) ==
    [ j \in DOMAIN hits |->
        [ type |-> "conversation", item |-> hits[j], score |-> rank, key |-> rank ] ]

RECURSIVE JoinConversations(_, _, _, _)
JoinConversations(d, f, query, options) ==
    IF f > Len(d.conversations_fts) THEN << >>
    ELSE LET m == d.conversations_fts[f]
             on(c) == /\ c.conversation_id = m.conversation_id
                      /\ ConversationFilter(c, options)
         IN  RankedConversations(IF Match(ConversationColumns(m), query)
                                 THEN SelectSeq(d.conversations, on) ELSE << >>,
                                 Bm25(ConversationColumns(m), query))
             \o JoinConversations(d, f + 1, query, options)

NotInitialized == [ outcome |-> "throws", error |-> "Search index not initialized", items |-> << >> ]

Resolves(items) == [ outcome |-> "resolves", error |-> "", items |-> items ]

\* searchConversations without its isInitialized guard: the faulty variant
searchConversationsUnguarded(d, initialized, query, options) ==
    LET limit == IF IsSome(options.limit) THEN options.limit[1] ELSE DefaultLimit
    IN  Resolves(Results(SqlLimit(OrderBy(JoinConversations(d, 1, query, options)), limit)))

\* SearchIndex.searchConversations(query, {project, dateFrom, dateTo, limit})
searchConversations(d, initialized, query, options) ==
    IF ~initialized THEN NotInitialized
    ELSE LET limit == IF IsSome(options.limit) THEN options.limit[1] ELSE DefaultLimit
         IN  Resolves(Results(SqlLimit(OrderBy(JoinConversations(d, 1, query, options)), limit)))

\* AND c.command_type = ?
CommandFilter(c, options) ==
    (IsSome(options.commandType) /\ options.commandType[1] # "any")
        => c.command_type = options.commandType[1]

\* FROM commands c JOIN commands_fts ON commands_fts.conversation_id = c.conversation_id
\* WHERE commands_fts MATCH ?: for the mirror rows from f on
\* SELECT c.*, bm25(commands_fts) as rank: the joined rows of one mirror row
RankedCommands(hits, rank) ==
    [ j \in DOMAIN hits |->
        [ type |-> "command", item |-> hits[j],
          score |-> rank,
          \* ORDER BY rank, c.confidence DESC (confidence is at most 10 tenths)
          key |-> rank * 100 - hits[j].confidence ] ]

RECURSIVE JoinCommands(_, _, _, _)
JoinCommands(d, f, query, options) ==
    IF f > Len(d.commands_fts) THEN << >>
    ELSE LET m == d.commands_fts[f]
             on(c) == /\ c.conversation_id = m.conversation_id
                      /\ CommandFilter(c, options)
         IN  RankedCommands(IF Match(CommandColumns(m), query)
                            THEN SelectSeq(d.commands, on) ELSE << >>,
                            Bm25(CommandColumns(m), query))
             \o JoinCommands(d, f + 1, query, options)

\* SearchIndex.searchCommands(query, {commandType, limit})
searchCommands(d, initialized, query, options) ==
    IF ~initialized THEN NotInitialized
    ELSE LET limit == IF IsSome(options.limit) THEN options.limit[1] ELSE DefaultLimit
         IN  Resolves(Results(SqlLimit(OrderBy(JoinCommands(d, 1, query, options)), limit)))

\* the hits of a Fuse search cut to the limit, a perfect match having score 0
FuseResults(found, limit) ==
    LET cut == IF limit >= 0 THEN Take(found, limit) ELSE found
    IN  [ j \in DOMAIN cut |-> [ type |-> "command", item |-> cut[j], score |-> 0 ] ]

\* commandFuse.search(query, {limit}): the snapshot rows whose command or context holds
\* the query
FuseSearch(items, query, limit) ==
    LET hit(c) == \/ includes(toLowerCase(c.command), toLowerCase(query))
                  \/ includes(toLowerCase(c.context), toLowerCase(query))
    IN  FuseResults(SelectSeq(items, hit), limit)

\* SearchIndex.fuzzySearchCommands(query, limit = 10)
fuzzySearchCommands(fz, initialized, query, limit) ==
    IF ~initialized \/ ~IsSome(fz.commandFuse) THEN NotInitialized
    ELSE Resolves(FuseSearch(fz.commandFuse[1], query,
                             IF IsSome(limit) THEN limit[1] ELSE DefaultLimit))

(***************************************************************************)
(* State.                                                                  *)
(***************************************************************************)
VARIABLES
    archive,        \* the files of the history directory, in listing order (never changed)
    db,             \* the six tables of the SQLite database
    fuse,           \* conversationFuse, messageFuse, commandFuse: the fuzzy snapshot
    isInitialized,  \* SearchIndex.isInitialized
    bld,            \* per buildIndex call in progress: its position and its local variables
    built,          \* the getStats counts build_search_index reported, if the most
                    \* recent finished buildIndex call succeeded
    lastBuild,      \* how the most recent finished buildIndex call ended: "ok", or the
                    \* error it rejected with
    succeeded,      \* some buildIndex call has completed successfully
    last            \* the call answered in this step and its response (NoCall otherwise)

vars == << archive, db, fuse, isInitialized, bld, built, lastBuild, succeeded, last >>

\* the number of files per batch (50 in the source, scaled down with the archive)
batchSize == 1

\* the rows getAllMessages reads at most
MessageSnapshotCap == 10000

\* the callers that can have a buildIndex call in progress
Builders == { 1 }

NoCall == [ op |-> "none" ]

Idle ==
    [ pc |-> "idle", n |-> 0, i |-> 0, k |-> 0, processed |-> 0,
      conversations |-> << >>, messages |-> << >>, commands |-> << >>,
      snapConversations |-> << >>, snapMessages |-> << >> ]

\* files.filter(f => f.endsWith('.json')) over the listing of the archive
JsonFiles ==
    LET names == [ i \in DOMAIN archive |-> FileName(i) ]
        isJson(f) == endsWith(f, << ".", "j", "s", "o", "n" >>)
    IN  SelectSeq(names, isJson)

\* the content of the file of that name: readFile and JSON.parse
ReadJson(file) == archive[CHOOSE i \in DOMAIN archive : FileName(i) = file]

Init ==
    /\ archive \in Archives
    /\ db = EmptyDb
    /\ fuse = [ conversationFuse |-> None, messageFuse |-> None, commandFuse |-> None ]
    /\ isInitialized = FALSE
    /\ bld = [ b \in Builders |-> Idle ]
    /\ built = None
    /\ lastBuild = "none"
    /\ succeeded = FALSE
    /\ last = NoCall

(***************************************************************************)
(* buildIndex, one action per await or queued statement.                   *)
(***************************************************************************)
\* the call: clearIndex queues its six DELETE statements
StartBuild(b) ==
    /\ last = NoCall
    /\ bld[b].pc = "idle"
    /\ bld' = [ bld EXCEPT ![b] = [ Idle EXCEPT !.pc = "clear", !.n = 1 ] ]
    /\ last' = NoCall
    /\ UNCHANGED << archive, db, fuse, isInitialized, built, lastBuild, succeeded >>

\* one DELETE statement of clearIndex; the promise resolves after the sixth
ClearStep(b) ==
    /\ last = NoCall
    /\ bld[b].pc = "clear"
    /\ db' = DeleteAll(db, ClearOrder[bld[b].n])
    /\ bld' = [ bld EXCEPT ![b] =
                  IF bld[b].n < Len(ClearOrder)
                  THEN [ @ EXCEPT !.n = @ + 1 ]
                  ELSE [ @ EXCEPT !.pc = "readdir", !.n = 0 ] ]
    /\ last' = NoCall
    /\ UNCHANGED << archive, fuse, isInitialized, built, lastBuild, succeeded >>

\* a rejection that does not carry its cause: the faulty variant of Rejection
RejectionWithoutCause(pc) == "Failed to build index"

\* the error buildIndex rejects with: the catch rethrows the error of the awaited step
\* that failed (the step is known by the position of the call)
Rejection(pc) ==
    IF pc = "clear" THEN "DELETE failed"
    ELSE IF pc = "readdir" THEN "readdir failed"
    ELSE IF pc \in { "insertConversations", "insertMessages", "insertCommands" }
    THEN "INSERT failed"
    ELSE "SELECT failed"

\* a failing call that marks the index initialized all the same: the faulty variant of Failed
FailedSetsFlag(b) ==
    /\ bld' = [ bld EXCEPT ![b] = Idle ]
    /\ lastBuild' = Rejection(bld[b].pc)
    /\ built' = None
    /\ last' = NoCall
    /\ isInitialized' = TRUE
    /\ UNCHANGED << archive, db, fuse, succeeded >>

\* a rejected promise inside buildIndex: the catch logs and rethrows, the call ends
Failed(b) ==
    /\ bld' = [ bld EXCEPT ![b] = Idle ]
    /\ lastBuild' = Rejection(bld[b].pc)
    /\ built' = None
    /\ last' = NoCall
    /\ UNCHANGED << archive, db, fuse, isInitialized, succeeded >>

\* the last DELETE reports an error: clearIndex rejects
ClearFail(b) ==
    /\ last = NoCall
    /\ bld[b].pc = "clear"
    /\ bld[b].n = Len(ClearOrder)
    /\ Failed(b)

\* the first batch of the loop, or the end of the loop
NextBatch(loc, start) ==
    IF start < Len(JsonFiles)
    THEN [ loc EXCEPT !.pc = "read", !.i = start, !.k = 0,
                      !.conversations = << >>, !.messages = << >>, !.commands = << >> ]
    ELSE [ loc EXCEPT !.pc = "getConversations", !.i = start, !.k = 0,
                      !.conversations = << >>, !.messages = << >>, !.commands = << >> ]

\* fs.promises.readdir succeeds
Readdir(b) ==
    /\ last = NoCall
    /\ bld[b].pc = "readdir"
    /\ bld' = [ bld EXCEPT ![b] = NextBatch(@, 0) ]
    /\ last' = NoCall
    /\ UNCHANGED << archive, db, fuse, isInitialized, built, lastBuild, succeeded >>

\* fs.promises.readdir throws: the directory cannot be listed
ReaddirFail(b) ==
    /\ last = NoCall
    /\ bld[b].pc = "readdir"
    /\ Failed(b)

\* a batch that takes one file of the next batch with it: the faulty variant of Batch
BatchOverlapping(i) == SubSeq(JsonFiles, i + 1, Min(i + batchSize + 1, Len(JsonFiles)))

\* the files of the batch that starts at i: jsonFiles.slice(i, i + batchSize)
Batch(i) == SubSeq(JsonFiles, i + 1, Min(i + batchSize, Len(JsonFiles)))

\* conversations.push(...), messages.push(...), commands.push(...): the rows of a file
\* after those collected before it
PushRows(rows, rest) ==
    [ conversations |-> rows.conversations \o rest.conversations,
      messages |-> rows.messages \o rest.messages,
      commands |-> rows.commands \o rest.commands ]

\* the rows processBatch collects from files[k..]
RECURSIVE BatchRows(_, _)
BatchRows(files, k) ==
    IF k > Len(files)
    THEN [ conversations |-> << >>, messages |-> << >>, commands |-> << >> ]
    ELSE PushRows(ProcessFile(ReadJson(files[k]), files[k]), BatchRows(files, k + 1))

\* await insertConversations, await insertMessages, await insertCommands
InsertRows(d, rows) ==
    insertCommands(insertMessages(insertConversations(d, rows.conversations),
                                  rows.messages), rows.commands)

\* processBatch as a whole: the three inserts of the rows of the batch
processBatch(d, files) == InsertRows(d, BatchRows(files, 1))

\* the loop of buildIndex from the batch that starts at i
RECURSIVE IndexFrom(_, _)
IndexFrom(d, i) ==
    IF i >= Len(JsonFiles) THEN d
    ELSE IndexFrom(processBatch(d, Batch(i)), i + batchSize)

\* the tables a buildIndex call that runs undisturbed leaves behind: the complete index
RebuiltIndex == IndexFrom(EmptyDb, 0)

\* a file that cannot be read or parsed rejects processBatch: the faulty variant of ReadFile
ReadFileAborts(b) ==
    /\ last = NoCall
    /\ bld[b].pc = "read"
    /\ \E file \in { Batch(bld[b].i)[bld[b].k + 1] } :
          IF ~ReadJson(file).ok THEN Failed(b)
          ELSE \E rows \in { ProcessFile(ReadJson(file), file) } :
                  /\ bld' = [ bld EXCEPT ![b] =
                               [ @ EXCEPT
                                   !.conversations = @ \o rows.conversations,
                                   !.messages = @ \o rows.messages,
                                   !.commands = @ \o rows.commands,
                                   !.k = @ + 1,
                                   !.pc = IF bld[b].k + 1 = Len(Batch(bld[b].i))
                                          THEN "insertConversations" ELSE "read" ] ]
                  /\ last' = NoCall
                  /\ UNCHANGED << archive, db, fuse, isInitialized, built, lastBuild,
                                  succeeded >>

\* processBatch reads, parses and processes the next file of its batch
ReadFile(b) ==
    /\ last = NoCall
    /\ bld[b].pc = "read"
    /\ \E file \in { Batch(bld[b].i)[bld[b].k + 1] } :
          \E rows \in { ProcessFile(ReadJson(file), file) } :
             bld' = [ bld EXCEPT ![b] =
                        [ @ EXCEPT
                            !.conversations = @ \o rows.conversations,
                            !.messages = @ \o rows.messages,
                            !.commands = @ \o rows.commands,
                            !.k = @ + 1,
                            !.pc = IF bld[b].k + 1 = Len(Batch(bld[b].i))
                                   THEN "insertConversations" ELSE "read" ] ]
    /\ last' = NoCall
    /\ UNCHANGED << archive, db, fuse, isInitialized, built, lastBuild, succeeded >>

InsertConversations(b) ==
    /\ last = NoCall
    /\ bld[b].pc = "insertConversations"
    /\ db' = insertConversations(db, bld[b].conversations)
    /\ bld' = [ bld EXCEPT ![b].pc = "insertMessages" ]
    /\ last' = NoCall
    /\ UNCHANGED << archive, fuse, isInitialized, built, lastBuild, succeeded >>

InsertMessages(b) ==
    /\ last = NoCall
    /\ bld[b].pc = "insertMessages"
    /\ db' = insertMessages(db, bld[b].messages)
    /\ bld' = [ bld EXCEPT ![b].pc = "insertCommands" ]
    /\ last' = NoCall
    /\ UNCHANGED << archive, fuse, isInitialized, built, lastBuild, succeeded >>

\* the last insert of processBatch, then the loop: processed += batch.length, i += batchSize
InsertCommands(b) ==
    /\ last = NoCall
    /\ bld[b].pc = "insertCommands"
    /\ db' = insertCommands(db, bld[b].commands)
    /\ bld' = [ bld EXCEPT ![b] =
                  NextBatch([ @ EXCEPT !.processed = @ + Len(Batch(bld[b].i)) ],
                            bld[b].i + batchSize) ]
    /\ last' = NoCall
    /\ UNCHANGED << archive, fuse, isInitialized, built, lastBuild, succeeded >>

\* finalize reports an error: the insert rejects and the build aborts
InsertFail(b) ==
    /\ last = NoCall
    /\ bld[b].pc \in { "insertConversations", "insertMessages", "insertCommands" }
    /\ Failed(b)

\* buildFuseIndexes: await getAllConversations()
GetAllConversations(b) ==
    /\ last = NoCall
    /\ bld[b].pc = "getConversations"
    /\ bld' = [ bld EXCEPT ![b].snapConversations = db.conversations,
                           ![b].pc = "getMessages" ]
    /\ last' = NoCall
    /\ UNCHANGED << archive, db, fuse, isInitialized, built, lastBuild, succeeded >>

\* buildFuseIndexes: await getAllMessages()
GetAllMessages(b) ==
    /\ last = NoCall
    /\ bld[b].pc = "getMessages"
    /\ bld' = [ bld EXCEPT ![b].snapMessages = Take(db.messages, MessageSnapshotCap),
                           ![b].pc = "getCommands" ]
    /\ last' = NoCall
    /\ UNCHANGED << archive, db, fuse, isInitialized, built, lastBuild, succeeded >>

\* a build that ends well without the three new Fuse(...): the faulty variant of FinishBuild
FinishBuildKeepsSnapshot(b) ==
    /\ last = NoCall
    /\ bld[b].pc = "getCommands"
    /\ isInitialized' = TRUE
    /\ bld' = [ bld EXCEPT ![b] = Idle ]
    /\ lastBuild' = "ok"
    /\ succeeded' = TRUE
    /\ built' = Some(getStats(db))
    /\ last' = NoCall
    /\ UNCHANGED << archive, db, fuse >>

\* await getAllCommands(), the three new Fuse(...), then isInitialized = true; the tool
\* build_search_index then reports getStats()
FinishBuild(b) ==
    /\ last = NoCall
    /\ bld[b].pc = "getCommands"
    /\ fuse' = [ conversationFuse |-> Some(bld[b].snapConversations),
                 messageFuse |-> Some(bld[b].snapMessages),
                 commandFuse |-> Some(db.commands) ]
    /\ isInitialized' = TRUE
    /\ bld' = [ bld EXCEPT ![b] = Idle ]
    /\ lastBuild' = "ok"
    /\ succeeded' = TRUE
    /\ built' = Some(getStats(db))
    /\ last' = NoCall
    /\ UNCHANGED << archive, db >>

\* one of the three SELECT statements reports an error
SnapshotFail(b) ==
    /\ last = NoCall
    /\ bld[b].pc \in { "getConversations", "getMessages", "getCommands" }
    /\ Failed(b)

\* a step of buildIndex; a response is taken by its caller before the next step
Build(b) ==
    \/ StartBuild(b)
    \/ ClearStep(b)
    \/ ClearFail(b)
    \/ Readdir(b)
    \/ ReaddirFail(b)
    \/ ReadFile(b)
    \/ InsertConversations(b)
    \/ InsertMessages(b)
    \/ InsertCommands(b)
    \/ InsertFail(b)
    \/ GetAllConversations(b)
    \/ GetAllMessages(b)
    \/ FinishBuild(b)
    \/ SnapshotFail(b)

(***************************************************************************)
(* The calls of the query methods of SearchIndex.                          *)
(***************************************************************************)
\* the largest limit a caller passes
MaxLimit == 1

Queries == { Npm, Git }

Limits == { Some(l) : l \in 0..MaxLimit }

NoOptions == [ project |-> None, dateFrom |-> None, dateTo |-> None, limit |-> None ]

\* the options of searchConversations: no filter, each filter, an empty project, and
\* each limit together with a filter
ConversationOptions ==
    { NoOptions,
      [ NoOptions EXCEPT !.project = Some(P1) ],
      [ NoOptions EXCEPT !.project = Some(<< >>) ],
      [ NoOptions EXCEPT !.dateFrom = Some(Y2024) ],
      [ NoOptions EXCEPT !.dateFrom = Some(Y2023), !.dateTo = Some(Y2024) ] }

ConversationCalls ==
    ({ Npm } \X ConversationOptions)
    \cup { << Git, NoOptions >>, << Git, [ NoOptions EXCEPT !.project = Some(P1) ] >> }
    \cup { << Npm, [ NoOptions EXCEPT !.limit = l ] >> : l \in Limits }

\* the values of command_type in the tool schema; a command type is an atom
CommandTypes == { "any", "cli", "code", "config" }

CommandOptions ==
    { [ commandType |-> None, limit |-> None ] }
    \cup { [ commandType |-> Some(ty), limit |-> None ] : ty \in CommandTypes }

CommandCalls ==
    ({ Npm } \X CommandOptions)
    \cup { << Git, [ commandType |-> None, limit |-> None ] >>,
           << Git, [ commandType |-> Some("cli"), limit |-> None ] >> }
    \cup { << Npm, [ commandType |-> None, limit |-> l ] >> : l \in Limits }

FuzzyCalls == (Queries \X { None }) \cup { << Npm, Some(1) >> }

\* a query method that marks the index initialized as it answers: the faulty variant of Reads
ReadsAndMarks(call) ==
    /\ last = NoCall
    /\ last' = call
    /\ isInitialized' = TRUE
    /\ UNCHANGED << archive, db, fuse, bld, built, lastBuild, succeeded >>

\* a query method answers a call; the caller takes the response (Return) before the
\* next one is recorded
Reads(call) ==
    /\ last = NoCall
    /\ last' = call
    /\ UNCHANGED << archive, db, fuse, isInitialized, bld, built, lastBuild, succeeded >>

SearchConversations ==
    \E call \in ConversationCalls :
        Reads([ op |-> "searchConversations", query |-> call[1], options |-> call[2],
                result |-> searchConversations(db, isInitialized, call[1], call[2]) ])

SearchCommands ==
    \E call \in CommandCalls :
        Reads([ op |-> "searchCommands", query |-> call[1], options |-> call[2],
                result |-> searchCommands(db, isInitialized, call[1], call[2]) ])

FuzzySearchCommands ==
    \E call \in FuzzyCalls :
        Reads([ op |-> "fuzzySearchCommands", query |-> call[1], limit |-> call[2],
                result |-> fuzzySearchCommands(fuse, isInitialized, call[1], call[2]) ])

GetStats == Reads([ op |-> "getStats", stats |-> getStats(db) ])

\* the caller has taken the response
Return ==
    /\ last # NoCall
    /\ last' = NoCall
    /\ UNCHANGED << archive, db, fuse, isInitialized, bld, built, lastBuild, succeeded >>

Next ==
    \/ Build(1)
    \/ SearchConversations
    \/ SearchCommands
    \/ FuzzySearchCommands
    \/ GetStats
    \/ Return

Spec == Init /\ [][Next]_vars

(***************************************************************************)
(* The tool handlers search_conversations and find_command of index.ts,    *)
(* with the scans of the archive they fall back to.                        *)
(***************************************************************************)
\* limit = 10 of search_conversations and of its fallback
DefaultConversationLimit == 10

\* limit = 5 of find_command and of its fallback
DefaultCommandLimit == 5

\* jsonFiles.slice(0, 50) of fallbackSearchConversations
FallbackFileCap == 50

\* jsonFiles.slice(0, 10) of fallbackFindCommand
FallbackCommandFileCap == 10

\* confidence in tenths: 0.8 for a command found by the fallback
FallbackConfidence == 8

DigitSeq == << "0", "1", "2", "3", "4", "5", "6", "7", "8", "9" >>

DigitValue(c) == (CHOOSE i \in DOMAIN DigitSeq : DigitSeq[i] = c) - 1

AllDigits(s) == \A i \in DOMAIN s : s[i] \in Digits

\* new Date(text) as a number of months, for the forms YYYY and YYYY-MM of the archive;
\* undefined and any other text give an invalid date (None)
DateValue(o) ==
    IF ~IsSome(o) THEN None
    ELSE LET s == o[1]
             year == DigitValue(s[1]) * 1000 + DigitValue(s[2]) * 100
                     + DigitValue(s[3]) * 10 + DigitValue(s[4])
             month == DigitValue(s[6]) * 10 + DigitValue(s[7])
         IN  IF Len(s) = 4 /\ AllDigits(s) THEN Some(year * 12)
             ELSE IF /\ Len(s) = 7
                     /\ AllDigits(SubSeq(s, 1, 4))
                     /\ s[5] = "-"
                     /\ AllDigits(SubSeq(s, 6, 7))
                     /\ month \in 1..12
                  THEN Some(year * 12 + month - 1)
                  ELSE None

\* a < b for two Date objects: false when either is invalid
DateLess(a, b) == IsSome(a) /\ IsSome(b) /\ a[1] < b[1]

\* the response of a tool: the JSON payload, or the text "Error: ..." of the handler
Payload(method, total, items) ==
    [ outcome |-> "payload", search_method |-> method, total_found |-> total,
      items |-> items, error |-> << >> ]

ErrorResponse(operation, cause) ==
    [ outcome |-> "error", search_method |-> "none", total_found |-> 0,
      items |-> << >>, error |-> << operation, cause >> ]

\* total_found: results.length together with the results
Found(method, items) == Payload(method, Len(items), items)

ArgLimit(args, dflt) == IF IsSome(args.limit) THEN args.limit[1] ELSE dflt

\* if (args.project && ...) continue; if (args.date_from && ...) continue;
\* if (args.date_to && ...) continue: the dates are compared as Date objects
FallbackSkips(data, args) ==
    \/ Truthy(args.project) /\ data.project # args.project
    \/ /\ Truthy(args.date_from)
       /\ DateLess(DateValue(data.created_at), DateValue(args.date_from))
    \/ /\ Truthy(args.date_to)
       /\ DateLess(DateValue(args.date_to), DateValue(data.created_at))

\* title.toLowerCase().includes(queryLower) || summary.toLowerCase().includes(queryLower)
FallbackMatches(data, query) ==
    \/ includes(toLowerCase(OrElse(data.title, << >>)), toLowerCase(query))
    \/ includes(toLowerCase(OrElse(data.summary, << >>)), toLowerCase(query))

\* the result the fallback pushes for a file that matches
FallbackConversation(data, file) ==
    [ conversation_id |-> data.conversation_id,
      title |-> OrElse(data.title, << >>),
      summary |-> OrElse(data.summary, << >>),
      created_at |-> data.created_at,
      project |-> data.project,
      message_count |-> data.user_turn_count + data.assistant_turn_count,
      relevance |-> << "fallback search" >>,
      file |-> file ]

\* the loop of fallbackSearchConversations over files[k..]
RECURSIVE FallbackConversationScan(_, _, _, _)
\* if (results.length >= limit) break, at the end of the iteration for files[k]
FallbackBreak(files, k, pushed, args) ==
    IF Len(pushed) >= ArgLimit(args, DefaultConversationLimit) THEN pushed
    ELSE FallbackConversationScan(files, k + 1, pushed, args)

FallbackConversationScan(files, k, results, args) ==
    IF k > Len(files) THEN results
    ELSE LET data == ReadJson(files[k])
         IN  IF ~data.ok \/ FallbackSkips(data, args)
             THEN FallbackConversationScan(files, k + 1, results, args)
             ELSE FallbackBreak(files, k,
                                IF FallbackMatches(data, args.query)
                                THEN Append(results, FallbackConversation(data, files[k]))
                                ELSE results,
                                args)

\* fallbackSearchConversations: readdir, then the scan; a listing that fails is rethrown
\* by the handler as "Failed to search conversations: ..."
fallbackSearchConversations(listing, args) ==
    IF listing = "fails"
    THEN ErrorResponse("Failed to search conversations", "readdir failed")
    ELSE Found("fallback",
               FallbackConversationScan(Take(JsonFiles, FallbackFileCap), 1, << >>, args))

\* the handler without its inner catch, so that the error of the index reaches the
\* caller: the faulty variant of search_conversations
search_conversationsNoFallback(d, initialized, listing, args) ==
    LET r == searchConversations(d, initialized, args.query,
                 [ project |-> args.project, dateFrom |-> args.date_from,
                   dateTo |-> args.date_to,
                   limit |-> Some(ArgLimit(args, DefaultConversationLimit)) ])
    IN  IF r.outcome = "resolves"
        THEN Payload("indexed", Len(r.items), << >>)
        ELSE ErrorResponse("Failed to search conversations", r.error)

\* the try and the catch around the indexed search: its results as the payload, or the
\* fallback when it threw
ConversationResponse(r, listing, args) ==
    IF r.outcome = "resolves"
    THEN Payload("indexed", Len(r.items),
             [ j \in DOMAIN r.items |->
                 [ conversation_id |-> r.items[j].item.conversation_id,
                   title |-> r.items[j].item.title,
                   summary |-> r.items[j].item.summary,
                   created_at |-> r.items[j].item.created_at,
                   project |-> r.items[j].item.project,
                   message_count |-> r.items[j].item.message_count,
                   relevance |-> << "indexed search", r.items[j].score >>,
                   file |-> r.items[j].item.file_path ] ])
    ELSE fallbackSearchConversations(listing, args)

\* MemexSearchServer.searchConversations: the indexed search, and the fallback when the
\* index throws
search_conversations(d, initialized, listing, args) ==
    ConversationResponse(
        searchConversations(d, initialized, args.query,
            [ project |-> args.project, dateFrom |-> args.date_from,
              dateTo |-> args.date_to,
              limit |-> Some(ArgLimit(args, DefaultConversationLimit)) ]),
        listing, args)

\* content.match(/`([^`]+)`/g), scanning from position i: the spans between the ticks
RECURSIVE FallbackSpans(_, _)
FallbackSpans(s, i) ==
    IF i > Len(s) THEN << >>
    ELSE IF s[i] # Tick THEN FallbackSpans(s, i + 1)
    ELSE IF \E j \in (i + 1)..Len(s) : s[j] = Tick
         THEN LET j == CHOOSE j \in (i + 1)..Len(s) :
                          s[j] = Tick /\ \A k \in (i + 1)..(j - 1) : s[k] # Tick
              IN  IF j > i + 1
                  THEN << SubSeq(s, i + 1, j - 1) >> \o FallbackSpans(s, j + 1)
                  ELSE FallbackSpans(s, i + 1)
         ELSE << >>

\* the spans of the content that hold the query: command.toLowerCase().includes(...)
FallbackHits(content, query) ==
    LET hit(command) == includes(toLowerCase(command), toLowerCase(query))
    IN  SelectSeq(FallbackSpans(content, 1), hit)

\* the results the fallback pushes for the matching spans of message i
FallbackCommands(hits, data, i, content) ==
    [ j \in DOMAIN hits |->
        [ command |-> hits[j],
          context |-> getContextAround(split(content), 0, 1),
          conversation_id |-> OrElse(data.conversation_id, << >>),
          conversation_title |-> OrElse(data.title, << >>),
          message_index |-> i,
          confidence |-> FallbackConfidence,
          type |-> "cli" ] ]

\* the inner loop of fallbackFindCommand over messages[i..] (0-based i); thrown: a null
\* entry raised the TypeError that the catch of the file loop swallows
RECURSIVE FallbackMessageScan(_, _, _, _, _)
\* if (results.length >= limit) break, at the end of the iteration for messages[i]
FallbackMessageBreak(data, i, pushed, query, limit) ==
    IF Len(pushed) >= limit THEN [ results |-> pushed, thrown |-> FALSE ]
    ELSE FallbackMessageScan(data, i + 1, pushed, query, limit)

FallbackMessageScan(data, i, results, query, limit) ==
    LET messages == IF IsSome(data.messages) THEN data.messages[1] ELSE << >>
    IN  IF i >= Len(messages) THEN [ results |-> results, thrown |-> FALSE ]
        ELSE IF ~IsSome(messages[i + 1]) THEN [ results |-> results, thrown |-> TRUE ]
        ELSE IF messages[i + 1][1].content = << >>
        THEN FallbackMessageScan(data, i + 1, results, query, limit)
        ELSE FallbackMessageBreak(data, i,
                 results \o FallbackCommands(
                                FallbackHits(messages[i + 1][1].content, query),
                                data, i, messages[i + 1][1].content),
                 query, limit)

\* the loop of fallbackFindCommand over files[k..]
RECURSIVE FallbackCommandScan(_, _, _, _, _)
\* after the messages of files[k]: the catch of a thrown scan goes on with the next file,
\* otherwise if (results.length >= limit) break
FallbackFileBreak(files, k, scan, query, limit) ==
    IF scan.thrown THEN FallbackCommandScan(files, k + 1, scan.results, query, limit)
    ELSE IF Len(scan.results) >= limit THEN scan.results
    ELSE FallbackCommandScan(files, k + 1, scan.results, query, limit)

FallbackCommandScan(files, k, results, query, limit) ==
    IF k > Len(files) THEN results
    ELSE IF ~ReadJson(files[k]).ok
    THEN FallbackCommandScan(files, k + 1, results, query, limit)
    ELSE FallbackFileBreak(files, k,
                           FallbackMessageScan(ReadJson(files[k]), 0, results, query, limit),
                           query, limit)

\* Array.prototype.slice(0, n): a negative n counts from the end
Slice(s, n) == IF n >= 0 THEN Take(s, n) ELSE SubSeq(s, 1, Max(0, Len(s) + n))

\* total_found: results.length, commands: results.slice(0, limit)
Sliced(results, limit) == Payload("fallback", Len(results), Slice(results, limit))

\* fallbackFindCommand: readdir, the scan, and results.slice(0, limit)
fallbackFindCommand(listing, args) ==
    IF listing = "fails"
    THEN ErrorResponse("Failed to find commands", "readdir failed")
    ELSE Sliced(FallbackCommandScan(Take(JsonFiles, FallbackCommandFileCap), 1, << >>,
                                    args.query, ArgLimit(args, DefaultCommandLimit)),
                ArgLimit(args, DefaultCommandLimit))

\* the try and the catch around the indexed search: its results as the payload, or the
\* fallback when it threw
CommandResponse(r, listing, args) ==
    IF r.outcome = "resolves"
    THEN Payload("indexed", Len(r.items),
             [ j \in DOMAIN r.items |->
                 [ command |-> r.items[j].item.command,
                   context |-> r.items[j].item.context,
                   conversation_id |-> r.items[j].item.conversation_id,
                   conversation_title |-> << "Message", r.items[j].item.message_index >>,
                   message_index |-> r.items[j].item.message_index,
                   confidence |-> r.items[j].item.confidence,
                   type |-> r.items[j].item.command_type,
                   search_score |-> r.items[j].score ] ])
    ELSE fallbackFindCommand(listing, args)

\* MemexSearchServer.findCommand: the indexed search, and the fallback when the index throws
find_command(d, initialized, listing, args) ==
    CommandResponse(
        searchCommands(d, initialized, args.query,
            [ commandType |-> Some(IF IsSome(args.command_type)
                                   THEN args.command_type[1] ELSE "any"),
              limit |-> Some(ArgLimit(args, DefaultCommandLimit)) ]),
        listing, args)

NoArgs ==
    [ query |-> Npm, limit |-> None, project |-> None, date_from |-> None, date_to |-> None ]

\* the arguments of search_conversations: each query, each filter, each limit
ConversationArgs ==
    { [ NoArgs EXCEPT !.query = q ] : q \in Queries }
    \cup { [ NoArgs EXCEPT !.project = Some(P1) ],
           [ NoArgs EXCEPT !.date_to = Some(Y2024) ],
           [ NoArgs EXCEPT !.query = Git, !.date_from = Some(Y2024) ] }
    \cup { [ NoArgs EXCEPT !.limit = l ] : l \in Limits }

NoCommandArgs == [ query |-> Npm, command_type |-> None, limit |-> None ]

\* the arguments of find_command: each query, a type, each limit
CommandArgs ==
    { [ NoCommandArgs EXCEPT !.query = q ] : q \in Queries }
    \cup { [ NoCommandArgs EXCEPT !.command_type = Some("cli") ] }
    \cup { [ NoCommandArgs EXCEPT !.limit = l ] : l \in Limits }

\* whether the history directory can be listed; only the fallbacks list it, and they
\* run when the index throws
Listings == IF isInitialized THEN { "ok" } ELSE { "ok", "fails" }

CallSearchConversations ==
    \E args \in ConversationArgs, listing \in Listings :
        Reads([ op |-> "search_conversations", args |-> args,
                response |-> search_conversations(db, isInitialized, listing, args) ])

CallFindCommand ==
    \E args \in CommandArgs, listing \in Listings :
        Reads([ op |-> "find_command", args |-> args,
                response |-> find_command(db, isInitialized, listing, args) ])

NextTool ==
    \/ Build(1)
    \/ CallSearchConversations
    \/ CallFindCommand
    \/ Return

SpecTool == Init /\ [][NextTool]_vars

\* both kinds of calls side by side
NextAll ==
    \/ Build(1)
    \/ SearchConversations
    \/ SearchCommands
    \/ FuzzySearchCommands
    \/ GetStats
    \/ CallSearchConversations
    \/ CallFindCommand
    \/ Return

SpecAll == Init /\ [][NextAll]_vars

(***************************************************************************)
(* Two build_search_index calls that overlap: each await of one call can   *)
(* be followed by a step of the other.  No statement fails here.           *)
(***************************************************************************)
\* the two callers
Overlapping == { 1, 2 }

InitOverlap ==
    /\ archive \in Archives
    /\ db = EmptyDb
    /\ fuse = [ conversationFuse |-> None, messageFuse |-> None, commandFuse |-> None ]
    /\ isInitialized = FALSE
    /\ bld = [ b \in Overlapping |-> Idle ]
    /\ built = None
    /\ lastBuild = "none"
    /\ succeeded = FALSE
    /\ last = NoCall

\* the first call is made once
FirstCall ==
    /\ ~succeeded
    /\ StartBuild(1)

\* the second call is made once, while the first is in progress
SecondCall ==
    /\ ~succeeded
    /\ bld[1].pc # "idle"
    /\ StartBuild(2)

\* a step of a buildIndex call after its start, in which nothing fails
BuildStep(b) ==
    \/ ClearStep(b)
    \/ Readdir(b)
    \/ ReadFile(b)
    \/ InsertConversations(b)
    \/ InsertMessages(b)
    \/ InsertCommands(b)
    \/ GetAllConversations(b)
    \/ GetAllMessages(b)
    \/ FinishBuild(b)

NextOverlap ==
    \/ FirstCall
    \/ SecondCall
    \/ BuildStep(1)
    \/ BuildStep(2)
    \/ GetStats
    \/ Return

SpecOverlap == InitOverlap /\ [][NextOverlap]_vars

(***************************************************************************)
(* The unified search_conversations of the built server (part_000): the    *)
(* command results and the conversation results in one feed.               *)
(***************************************************************************)
\* limit = 5 when the argument is absent
DefaultUnifiedLimit == 5

\* Math.ceil(limit / 2) for a limit that is not negative
HalfLimit(limit) == (limit + 1) \div 2

\* combinedResults.push({type: "command", ...}) for every command result
UnifiedCommands(results) ==
    [ j \in DOMAIN results |->
        [ type |-> "command",
          conversation_id |-> results[j].item.conversation_id,
          title |-> results[j].item.command,
          summary |-> results[j].item.context,
          message_index |-> results[j].item.message_index,
          search_score |-> results[j].score ] ]

\* the entry of a conversation result
UnifiedConversation(r) ==
    [ type |-> "conversation",
      conversation_id |-> r.item.conversation_id,
      title |-> r.item.title,
      summary |-> r.item.summary,
      message_index |-> 0 - 1,
      search_score |-> r.score ]

\* the loop over the conversation results from results[k]: an entry is pushed unless
\* combinedResults.find(cr => cr.conversation_id === item.conversation_id) finds one
RECURSIVE AddConversations(_, _, _)
AddConversations(combined, results, k) ==
    IF k > Len(results) THEN combined
    ELSE AddConversations(
             IF \E j \in DOMAIN combined :
                    combined[j].conversation_id = results[k].item.conversation_id
             THEN combined
             ELSE Append(combined, UnifiedConversation(results[k])),
             results, k + 1)

\* the entries with their sort key, and back
Keyed(entries) ==
    [ j \in DOMAIN entries |-> [ key |-> entries[j].search_score, entry |-> entries[j] ] ]

Unkeyed(rows) == [ j \in DOMAIN rows |-> rows[j].entry ]

\* combinedResults.sort((a, b) => a.search_score - b.search_score).slice(0, limit)
FinalResults(combined, limit) == Slice(Unkeyed(OrderBy(Keyed(combined))), limit)

\* the try and the catch around the two indexed searches
UnifiedResponse(commandResults, conversationResults, listing, args) ==
    IF commandResults.outcome = "resolves" /\ conversationResults.outcome = "resolves"
    THEN Found("unified_indexed",
               FinalResults(AddConversations(UnifiedCommands(commandResults.items),
                                             conversationResults.items, 1),
                            ArgLimit(args, DefaultUnifiedLimit)))
    ELSE fallbackFindCommand(listing, args)

\* MemexSearchServer.searchConversations of part_000
unified_search_conversations(d, initialized, listing, args) ==
    UnifiedResponse(
        searchCommands(d, initialized, args.query,
            [ commandType |-> Some(IF IsSome(args.command_type)
                                   THEN args.command_type[1] ELSE "any"),
              limit |-> Some(HalfLimit(ArgLimit(args, DefaultUnifiedLimit))) ]),
        searchConversations(d, initialized, args.query,
            [ project |-> args.project, dateFrom |-> args.date_from,
              dateTo |-> args.date_to,
              limit |-> Some(HalfLimit(ArgLimit(args, DefaultUnifiedLimit))) ]),
        listing, args)

\* the arguments of the unified search: each query, the default limit and small limits
UnifiedArgs ==
    { [ query |-> q, command_type |-> None, limit |-> l, project |-> None,
        date_from |-> None, date_to |-> None ] :
        q \in Queries, l \in { None } \cup { Some(n) : n \in 0..(MaxLimit + 2) } }

CallUnifiedSearch ==
    \E args \in UnifiedArgs, listing \in Listings :
        Reads([ op |-> "unified_search_conversations", args |-> args,
                response |-> unified_search_conversations(db, isInitialized, listing, args) ])

NextUnified ==
    \/ Build(1)
    \/ CallUnifiedSearch
    \/ Return

SpecUnified == Init /\ [][NextUnified]_vars

(***************************************************************************)
(* The extractor and the classifier on their own: a message content is     *)
(* drawn, and extractCommands and detectContentType are applied to it.     *)
(***************************************************************************)
\* the largest number of blanks around the text of a backtick span
MaxPad == 1

UpperNpm == << "N","P","M" >>

Npx == << "n","p","x" >>

\* names that start a span: tools of both lists, tools of the first list only, a tool
\* in upper case and a name of neither list
SampleTools == { Npm, Git, Firebase, Pnpm, Py, Ls, Cd, UpperNpm, Npx }

\* what follows the name: words, flags, a hyphenated word, a call and a script
SampleArgs ==
    { << "i" >>, << "c","i" >>, << "r","u","n" >>, << "-","a" >>, << "-","-","x" >>,
      << "a","-","b" >>, << "f","(","x",")" >>, << "x",".","s","h" >> }

Blanks(n) == [ i \in 1..n |-> " " ]

\* 'ls aaa...' of length n
LongCommand(n) == Ls \o << " " >> \o [ i \in 1..(n - 3) |-> "a" ]

\* the texts of the spans: name, white space, argument; texts at the length limits
SpanTexts ==
    { tool \o sep \o arg :
        tool \in SampleTools, sep \in { << " " >>, << "\t" >> }, arg \in SampleArgs }
    \cup { Ls \o << " ", "a" >>, Cd \o << " ", "a" >>,
           LongCommand(MaxSpanLen - 1), LongCommand(MaxSpanLen) }

\* the text around a span: nothing, or prose on the same line
Before == { << >>, << "s","e","e"," " >> }

After == { << >>, << " ","o","k" >> }

\* a content with one backtick span, with the text of the span
SpanContents ==
    { [ op |-> "content", text |-> t,
        content |-> pre \o << Tick >> \o Blanks(l) \o t \o Blanks(r) \o << Tick >> \o post ] :
        t \in SpanTexts, l \in 0..MaxPad, r \in 0..MaxPad, pre \in Before, post \in After }

\* lines without a backtick: a call, an assignment of a call, a command and prose
SampleLines ==
    { << "f","(","a",","," ","b",")" >>,
      << "x"," ","="," ","f","(","a",","," ","b",")" >>,
      Npm \o << " ","i" >>,
      Yarn \o << " ","a","d","d" >>,
      Pnpm \o << " ","i" >>,
      Python \o << " ","x" >>,
      << ">"," ","o","k" >>,
      << ">","o","k" >>,
      << "a"," ","-","-","x" >>,
      << "h","e","l","l","o" >> }

\* what a line starts with: nothing, a shell prompt, a dollar sign as in $(...)
Prompts == { << >>, << "$"," " >>, << "$" >> }

\* a content of one or two lines without a backtick
LineContents ==
    { [ op |-> "content", text |-> line, content |-> pre \o prompt \o line ] :
        line \in SampleLines, prompt \in Prompts,
        pre \in { << >>, << "h","i",NL >> } }

Fence == << Tick, Tick, Tick >>

\* a fenced block holding one of the lines, with or without a prompt
FencedContents ==
    { [ op |-> "content", text |-> line,
        content |-> Fence \o << NL >> \o prompt \o line \o << NL >> \o Fence ] :
        line \in SampleLines, prompt \in Prompts }

Contents == SpanContents \cup LineContents \cup FencedContents

InitContent ==
    /\ archive = << >>
    /\ db = EmptyDb
    /\ fuse = [ conversationFuse |-> None, messageFuse |-> None, commandFuse |-> None ]
    /\ isInitialized = FALSE
    /\ bld = [ b \in Builders |-> Idle ]
    /\ built = None
    /\ lastBuild = "none"
    /\ succeeded = FALSE
    /\ last \in Contents

\* this.extractCommands(msg.content, conversation.conversation_id, i) for the content drawn
ExtractCommands ==
    /\ last.op = "content"
    /\ last' = [ op |-> "extractCommands", text |-> last.text, content |-> last.content,
                 commands |-> extractCommands(last.content, FileName(1), 0) ]
    /\ UNCHANGED << archive, db, fuse, isInitialized, bld, built, lastBuild, succeeded >>

\* this.detectContentType(msg.content) for the content drawn
DetectContentType ==
    /\ last.op = "content"
    /\ last' = [ op |-> "detectContentType", text |-> last.text, content |-> last.content,
                 content_type |-> detectContentType(last.content) ]
    /\ UNCHANGED << archive, db, fuse, isInitialized, bld, built, lastBuild, succeeded >>

\* this.hasCommandPatterns(content) in both classes for the content drawn
HasCommandPatterns ==
    /\ last.op = "content"
    /\ last' = [ op |-> "hasCommandPatterns", text |-> last.text, content |-> last.content,
                 index |-> hasCommandPatterns(last.content),
                 server |-> serverHasCommandPatterns(last.content) ]
    /\ UNCHANGED << archive, db, fuse, isInitialized, bld, built, lastBuild, succeeded >>

NextContent ==
    \/ ExtractCommands
    \/ DetectContentType
    \/ HasCommandPatterns

SpecContent == InitContent /\ [][NextContent]_vars

(***************************************************************************)
(* The tool-call handler of index.ts with get_conversation_snippet and     *)
(* get_search_stats behind it.  A tool implementation returns a payload or *)
(* throws an Error with a message; the handler turns what is thrown into   *)
(* the text "Error: <message>".                                            *)
(***************************************************************************)
\* message_start = 0 when the argument is absent
DefaultMessageStart == 0

\* message_count = 10 when the argument is absent
DefaultMessageCount == 10

\* msg.content?.substring(0, 500)
SnippetContentCap == 500

\* the largest message_start and message_count of a call, in either direction
MaxIndex == 3

\* throw new Error(`<operation>: ${cause}`)
Thrown(operation, cause) == [ outcome |-> "thrown", message |-> << operation, cause >> ]

\* Array.prototype.slice(a, b) with the positions of the result: a negative bound counts
\* from the end, and both are clamped to the array
ArraySlice(s, a, b) ==
    SubSeq(s,
           (IF a < 0 THEN Max(Len(s) + a, 0) ELSE Min(a, Len(s))) + 1,
           IF b < 0 THEN Max(Len(s) + b, 0) ELSE Min(b, Len(s)))

\* the loop over the listing from files[k]: JSON.parse throws on a file that cannot be
\* parsed, and the first file with that metadata.conversation_id ends the loop
RECURSIVE FindConversation(_, _, _)
FindConversation(files, k, id) ==
    IF k > Len(files) THEN [ outcome |-> "none" ]
    ELSE IF ~ReadJson(files[k]).ok THEN [ outcome |-> "throws" ]
    ELSE IF ReadJson(files[k]).conversation_id = Some(id)
         THEN [ outcome |-> "found", data |-> ReadJson(files[k]) ]
         ELSE FindConversation(files, k + 1, id)

\* msg.content?.substring(0, 500) + (msg.content?.length > 500 ? '...' : '')
SnippetContent(content) ==
    IF Len(content) > SnippetContentCap
    THEN Take(content, SnippetContentCap) \o << ".", ".", "." >>
    ELSE content

\* targetFile.messages || []
MessagesOf(data) == IF IsSome(data.messages) THEN data.messages[1] ELSE << >>

\* the payload for the slice taken: msg.role of a null entry throws a TypeError
SnippetPayload(id, data, start, snippet) ==
    IF \E j \in DOMAIN snippet : snippet[j] = None
    THEN Thrown("Failed to get conversation snippet", << "TypeError" >>)
    ELSE [ outcome |-> "payload", conversation_id |-> id, title |-> data.title,
           message_range |-> << start, start + Len(snippet) - 1 >>,
           total_messages |-> Len(MessagesOf(data)),
           messages |-> [ j \in DOMAIN snippet |->
                            [ index |-> start + (j - 1), role |-> snippet[j][1].role,
                              content |-> SnippetContent(snippet[j][1].content) ] ] ]

\* the slice with the count taken for the end position
SnippetSliceTo(messages, start, count) == ArraySlice(messages, start, count)

\* messages.slice(message_start, message_start + message_count)
SnippetSlice(messages, start, count) == ArraySlice(messages, start, start + count)

\* what follows the loop: not found, or the slice and the payload
SnippetOf(target, args) ==
    IF target.outcome = "throws"
    THEN Thrown("Failed to get conversation snippet", << "SyntaxError" >>)
    ELSE IF target.outcome = "none"
    THEN Thrown("Failed to get conversation snippet",
                << "Conversation not found", args.conversation_id >>)
    ELSE SnippetPayload(args.conversation_id, target.data,
                        OrDefault(args.message_start, DefaultMessageStart),
                        SnippetSlice(MessagesOf(target.data),
                                     OrDefault(args.message_start, DefaultMessageStart),
                                     OrDefault(args.message_count, DefaultMessageCount)))

\* MemexSearchServer.getConversationSnippet: readdir, the loop, the slice
getConversationSnippet(listing, args) ==
    IF listing = "fails"
    THEN Thrown("Failed to get conversation snippet", << "readdir failed" >>)
    ELSE SnippetOf(FindConversation(JsonFiles, 1, args.conversation_id), args)

\* MemexSearchServer.getSearchStats: the counts of the index
getSearchStats(d) == [ outcome |-> "payload", search_index_stats |-> getStats(d) ]

\* the names the switch of the handler knows
KnownTools ==
    { "search_conversations", "get_conversation_snippet", "search_projects",
      "get_project_overview", "find_command", "build_search_index", "get_search_stats" }

\* the switch for the names called here: the tool of that name, and
\* throw new Error(`Unknown tool: ${name}`) for a name that is none of the cases
Dispatch(name, d, listing, args) ==
    IF name = "get_conversation_snippet" THEN getConversationSnippet(listing, args)
    ELSE IF name = "get_search_stats" THEN getSearchStats(d)
    ELSE Thrown("Unknown tool", name)

\* a handler that lets what a tool throws pass
Rethrow(r) == r

\* the catch of the handler: text `Error: ${error.message}`
Catch(r) == IF r.outcome = "thrown" THEN ErrorResponse(r.message[1], r.message[2]) ELSE r

\* the CallToolRequestSchema handler
handler(name, d, listing, args) == Catch(Dispatch(name, d, listing, args))

\* the calls of get_conversation_snippet: an identifier that files carry and one that
\* none carries, each start and count, given or left out
SnippetArgs ==
    [ conversation_id : { FileName(1), FileName(2) },
      message_start : { None } \cup { Some(n) : n \in (0 - MaxIndex)..MaxIndex },
      message_count : { None } \cup { Some(n) : n \in (0 - MaxIndex)..MaxIndex } ]

\* the names called: two tools and two names the switch does not know
CalledNames == { "get_conversation_snippet", "get_search_stats", "get_snippet", "" }

CallTool ==
    \E name \in CalledNames, listing \in { "ok", "fails" }, args \in SnippetArgs :
        Reads([ op |-> "handler", name |-> name, args |-> args, listing |-> listing,
                response |-> handler(name, db, listing, args) ])

NextHandler ==
    \/ CallTool
    \/ Return

SpecHandler == Init /\ [][NextHandler]_vars

(***************************************************************************)
(* Properties.                                                             *)
(***************************************************************************)
IndexSearches == { "searchConversations", "searchCommands", "fuzzySearchCommands" }

ToolCalls == { "search_conversations", "find_command" }

\* C1: on an index on which no buildIndex call has completed successfully, every call of
\* searchConversations, searchCommands and fuzzySearchCommands fails with the error
\* 'Search index not initialized' and returns no result list, not even an empty one
C1_NotInitializedGuard ==
    (last.op \in IndexSearches /\ ~succeeded) => last.result = NotInitialized

\* a search answered while the first build has already written rows
C1_Witness ==
    /\ last.op \in IndexSearches
    /\ ~succeeded
    /\ db.conversations # << >>
    /\ last.result = NotInitialized

C3_ReadersSeeCompleteIndex ==
    (bld[1].pc # "idle" /\ IsSome(built)) =>
        /\ last.op = "getStats" => last.stats = getStats(RebuiltIndex)
        /\ last.op = "searchConversations" =>
               last.result = searchConversations(RebuiltIndex, TRUE, last.query, last.options)
        /\ last.op = "searchCommands" =>
               last.result = searchCommands(RebuiltIndex, TRUE, last.query, last.options)

\* C4: isInitialized changes from false to true only in the last step of a buildIndex call
\* whose clear, batches and fuzzy snapshot have all completed; no other step and no
\* failing call sets it
C4_FlagSetOnlyBySuccessfulBuild ==
    [][ (~isInitialized /\ isInitialized') =>
            /\ bld[1].pc = "getCommands"
            /\ bld[1].processed = Len(JsonFiles)
            /\ bld'[1].pc = "idle"
            /\ lastBuild' = "ok" ]_vars

\* the flag is set after a build of a non-empty archive
C4_Witness ==
    /\ isInitialized
    /\ lastBuild = "ok"
    /\ bld[1].pc = "idle"
    /\ db.conversations # << >>

\* the readable files of the archive that carry the conversation id (or, without one, the name)
FilesOf(cid) ==
    { k \in DOMAIN archive :
        archive[k].ok /\ OrElse(archive[k].conversation_id, FileName(k)) = cid }

\* C5: the conversations table holds at most one row per conversation_id, also when several
\* files carry the same id or a file name equals the id of another file, and after a
\* build that row carries the data of the file processed last
C5_OneRowPerConversation ==
    /\ \A i, j \in DOMAIN db.conversations :
           db.conversations[i].conversation_id = db.conversations[j].conversation_id => i = j
    /\ (bld[1].pc = "idle" /\ lastBuild = "ok") =>
           \A i \in DOMAIN db.conversations :
               LET row == db.conversations[i]
                   from == FilesOf(row.conversation_id)
                   k == CHOOSE k \in from : \A m \in from : m <= k
               IN  from # {} /\ row = ConversationRow(archive[k], FileName(k))

\* a finished build of an archive in which two different files have the same conversation id
C5_Witness ==
    /\ bld[1].pc = "idle"
    /\ lastBuild = "ok"
    /\ \E i, j \in DOMAIN archive :
           /\ i < j
           /\ archive[i] # archive[j]
           /\ j \in FilesOf(db.conversations[1].conversation_id)
           /\ i \in FilesOf(db.conversations[1].conversation_id)

\* C6: the inserts replace on both representations, so that each conversation row and each
\* command row has exactly one mirror entry, and each message row exactly one if its
\* content is longer than 10 characters and none otherwise
C6_OneMirrorEntryPerRow ==
    /\ \A c \in Range(db.conversations) :
           Cardinality({ i \in DOMAIN db.conversations_fts :
                           db.conversations_fts[i].conversation_id = c.conversation_id }) = 1
    /\ \A c \in Range(db.commands) :
           Cardinality({ i \in DOMAIN db.commands_fts :
                           /\ db.commands_fts[i].conversation_id = c.conversation_id
                           /\ db.commands_fts[i].command = c.command
                           /\ db.commands_fts[i].context = c.context })
             = Cardinality({ j \in DOMAIN db.commands :
                               /\ db.commands[j].conversation_id = c.conversation_id
                               /\ db.commands[j].command = c.command
                               /\ db.commands[j].context = c.context })
    /\ \A m \in Range(db.messages) :
           Cardinality({ i \in DOMAIN db.messages_fts :
                           /\ db.messages_fts[i].conversation_id = m.conversation_id
                           /\ db.messages_fts[i].content = m.content })
             = IF Len(m.content) > 10
               THEN Cardinality({ j \in DOMAIN db.messages :
                                    /\ db.messages[j].conversation_id = m.conversation_id
                                    /\ db.messages[j].content = m.content })
               ELSE 0

\* C7: every item searchCommands returns is a command row whose own command or context
\* matches the query, and no command row appears twice in one result list
C7_CommandResultsMatchOnce ==
    (last.op = "searchCommands" /\ last.result.outcome = "resolves") =>
        LET items == last.result.items
        IN  /\ \A j \in DOMAIN items :
                   Match(<< items[j].item.command, items[j].item.context >>, last.query)
            /\ \A j, k \in DOMAIN items : items[j].item.id = items[k].item.id => j = k

TypedOptions == { Some("cli"), Some("code"), Some("config") }

C9_LimitEnforced ==
    /\ (last.op \in { "searchConversations", "searchCommands" }
            /\ last.result.outcome = "resolves") =>
           Len(last.result.items)
             <= (IF IsSome(last.options.limit) THEN last.options.limit[1] ELSE 10)
    /\ (last.op \in ToolCalls /\ last.response.outcome = "payload"
            /\ IsSome(last.args.limit)) =>
           Len(last.response.items) <= last.args.limit[1]

\* C10: two successful buildIndex calls in a row over the unchanged archive report the
\* same getStats counts
C10_RebuildIdempotent == [][ (IsSome(built) /\ IsSome(built')) => built' = built ]_vars

\* a second build in a row that has ingested every batch again and is about to report
C10_Witness ==
    /\ IsSome(built)
    /\ bld[1].pc = "getCommands"
    /\ bld[1].processed = Len(archive)
    /\ built[1].commands > 0
    /\ getStats(db) = built[1]

\* every well-formed file has its conversation in the table, and no row comes from a file
\* that cannot be read or parsed
WellFormedStored ==
    /\ \A i \in DOMAIN archive :
           archive[i].ok =>
               \E r \in Range(db.conversations) :
                   r.conversation_id = OrElse(archive[i].conversation_id, FileName(i))
    /\ \A r \in Range(db.conversations) :
           \E i \in DOMAIN archive : archive[i].ok /\ r.file_path = FileName(i)

\* C11: in a buildIndex call whose directory listing succeeded, reading a file never ends
\* the call, whether or not the file can be read and parsed, and the call that runs to
\* its end sets the initialized flag with the conversation of every well-formed file in
\* the table and no row from a file that could not be read or parsed
C11_BadFilesAreSkipped ==
    [][ /\ bld[1].pc = "read" => bld'[1].pc \in { "read", "insertConversations" }
        /\ (bld[1].pc = "getCommands" /\ bld'[1].pc = "idle" /\ lastBuild' = "ok") =>
               (isInitialized' /\ WellFormedStored') ]_vars

\* a successful build of an archive with an unreadable file before a well-formed one
C11_Witness ==
    /\ bld[1].pc = "idle"
    /\ lastBuild = "ok"
    /\ isInitialized
    /\ Len(archive) = 2
    /\ ~archive[1].ok
    /\ archive[2].ok
    /\ Len(db.conversations) = 1

\* C12: a buildIndex call whose directory listing fails ends at once with the listing
\* error: it has processed no batch and writes no row, builds no fuzzy snapshot and
\* leaves the initialized flag as it was
C12_ListingFailureFailsFast ==
    [][ (bld[1].pc = "readdir" /\ bld'[1].pc = "idle") =>
            /\ lastBuild' = "readdir failed"
            /\ bld[1].processed = 0
            /\ db' = db
            /\ fuse' = fuse
            /\ isInitialized' = isInitialized ]_vars

\* the first call on a non-empty archive has ended with the listing error
C12_Witness ==
    /\ bld[1].pc = "idle"
    /\ lastBuild = "readdir failed"
    /\ archive # << >>
    /\ ~isInitialized
    /\ fuse.commandFuse = None

\* C13: a getStats call made before any buildIndex call has completed successfully fails
\* with the error 'Search index not initialized' and returns no counts
C13_GetStatsGuarded ==
    (last.op = "getStats" /\ ~succeeded) => last.stats = NotInitialized

\* a short or long flag as a token of the text: at the start or after white space, one
\* or two hyphens and then a word character
HasFlagToken(t) ==
    \E i \in DOMAIN t :
        /\ t[i] = "-"
        /\ i = 1 \/ IsSpace(t[i - 1])
        /\ \/ i + 1 <= Len(t) /\ IsWord(t[i + 1])
           \/ i + 2 <= Len(t) /\ t[i + 1] = "-" /\ IsWord(t[i + 2])

\* the text starts with the name
StartsWith(t, w) == Len(t) >= Len(w) /\ SubSeq(t, 1, Len(w)) = w

\* the type the ordered rule gives a text
RuleType(t) ==
    IF \E w \in CliNames : StartsWith(t, w) THEN "cli"
    ELSE IF HasFlagToken(t) THEN "config"
    ELSE "code"

\* longer than 3 and shorter than 150 characters, none of { } ( ), and a known tool name
\* followed by white space at the start
QualifiedSpan(t) ==
    /\ Len(t) > 3
    /\ Len(t) < 150
    /\ \A i \in DOMAIN t : t[i] \notin { "{", "}", "(", ")" }
    /\ \E w \in ToolNames :
           StartsWith(t, w) /\ Len(t) > Len(w) /\ IsSpace(t[Len(w) + 1])

\* C14: every backtick span whose trimmed text is longer than 3 and shorter than 150
\* characters, has none of { } ( ) and starts with a known tool name followed by white
\* space yields a command with exactly that text and confidence 0.9, of type cli if the
\* text starts with npm, yarn, git, python, node, docker, curl, firebase or memex,
\* otherwise config if it contains a short or long flag, otherwise code
C14_QualifiedSpanYieldsTypedCommand ==
    (last.op = "extractCommands" /\ QualifiedSpan(last.text)) =>
        \E c \in Range(last.commands) :
            /\ c.command = last.text
            /\ c.confidence = 9
            /\ c.command_type = RuleType(last.text)

\* call syntax: an opening parenthesis with a closing one after it
HasCall(t) == \E i, j \in DOMAIN t : i < j /\ t[i] = "(" /\ t[j] = ")"

C16_CodeBeforeCommandBeforeText ==
    last.op = "detectContentType" =>
        /\ Tick \in Range(last.content) => last.content_type = "code"
        /\ (Tick \notin Range(last.content) /\ hasCommandPatterns(last.content)) =>
               last.content_type = "command"
        /\ last.content_type = "text" =>
               (Tick \notin Range(last.content) /\ ~hasCommandPatterns(last.content))

\* a fenced block with a prompt line in it has been classified code
C16_Witness ==
    /\ last.op = "detectContentType"
    /\ includes(last.content, Fence)
    /\ includes(last.content, << "$"," " >> \o Npm \o << " ","i" >>)
    /\ hasCommandPatterns(last.content)
    /\ last.content_type = "code"

\* the call recorded is a get_conversation_snippet call on a directory that can be listed
SnippetCall ==
    last.op = "handler" /\ last.name = "get_conversation_snippet" /\ last.listing = "ok"

\* the parseable files that carry the identifier of the call
Carriers == { i \in DOMAIN archive : archive[i].ok /\ archive[i].conversation_id = Some(last.args.conversation_id) }

\* the messages of the first file that carries the identifier
SourceMessages == MessagesOf(archive[CHOOSE i \in Carriers : \A j \in Carriers : i <= j])

\* the payload holds the messages at the source indices s .. min(s+c, N)-1 in order,
\* each labelled with its source index and with role and content of that message, and
\* total_messages is N
ExactRange(r, s, c, source) ==
    /\ r.total_messages = Len(source)
    /\ Len(r.messages) = Max(0, Min(s + c, Len(source)) - s)
    /\ \A j \in DOMAIN r.messages :
           /\ r.messages[j].index = s + j - 1
           /\ r.messages[j].index \in 0..(Len(source) - 1)
           /\ r.messages[j].role = source[r.messages[j].index + 1][1].role
           /\ r.messages[j].content = source[r.messages[j].index + 1][1].content

\* C17 as stated, for every message_start s and message_count c: a
\* get_conversation_snippet call that returns a payload for a conversation of N messages
\* returns exactly the messages at the indices s .. min(s+c, N)-1, each with its source
\* index, and total_messages = N
C17_SnippetIsTheRange ==
    (SnippetCall /\ last.response.outcome = "payload") =>
        ExactRange(last.response,
                   OrDefault(last.args.message_start, DefaultMessageStart),
                   OrDefault(last.args.message_count, DefaultMessageCount),
                   SourceMessages)

\* C17 amended: the same for a message_start and a message_count that are not negative
C17_SnippetIsTheRangeFromZero ==
    (/\ SnippetCall /\ last.response.outcome = "payload"
     /\ OrDefault(last.args.message_start, DefaultMessageStart) >= 0
     /\ OrDefault(last.args.message_count, DefaultMessageCount) >= 0) =>
        ExactRange(last.response,
                   OrDefault(last.args.message_start, DefaultMessageStart),
                   OrDefault(last.args.message_count, DefaultMessageCount),
                   SourceMessages)

\* message_start = 1 and message_count = 3 on a conversation of two messages: the
\* message at index 1 alone is returned
C17_Witness ==
    /\ SnippetCall /\ last.response.outcome = "payload"
    /\ last.args.message_start = Some(1) /\ last.args.message_count = Some(3)
    /\ last.response.total_messages = 2
    /\ Len(last.response.messages) = 1 /\ last.response.messages[1].index = 1

\* C18: get_conversation_snippet(id) answers 'Conversation <id> not found' exactly when
\* no parseable file of the archive has metadata.conversation_id = id, and returns that
\* conversation otherwise, whatever unparseable files the archive holds
C18_NotFoundExactlyWhenAbsent ==
    SnippetCall =>
        /\ (last.response = ErrorResponse("Failed to get conversation snippet",
                                 << "Conversation not found", last.args.conversation_id >>))
              <=> (Carriers = { })
        /\ Carriers # { } =>
              /\ last.response.outcome = "payload"
              /\ last.response.conversation_id = last.args.conversation_id
              /\ last.response.total_messages = Len(SourceMessages)

\* C19: the handler returns a response for every name and arguments and lets nothing
\* pass that was thrown: a name the switch does not know is answered with the text
\* 'Error: Unknown tool: <name>', and what a tool throws with 'Error: <message>'
C19_HandlerNeverThrows ==
    last.op = "handler" =>
        /\ last.response.outcome \in { "payload", "error" }
        /\ last.name \notin KnownTools =>
               last.response = ErrorResponse("Unknown tool", last.name)
        /\ \A t \in { Dispatch(last.name, db, last.listing, last.args) } :
               t.outcome = "thrown" =>
                   last.response = ErrorResponse(t.message[1], t.message[2])

\* a name the switch does not know has been answered with the error text
C19_Witness ==
    /\ last.op = "handler" /\ last.name = "get_snippet"
    /\ last.response = ErrorResponse("Unknown tool", "get_snippet")

\* the rank of some mirror row that matches the query and joins the item
RankOf(mirror, columns(_), query, item, score) ==
    \E m \in Range(mirror) :
        /\ m.conversation_id = item.conversation_id
        /\ Match(columns(m), query)
        /\ score = Bm25(columns(m), query)

\* C20: searchConversations returns its results in ascending rank, searchCommands in
\* ascending rank and, among equal ranks, in descending confidence; the score of a
\* result is the rank of the full-text mirror row it was joined with for the query
C20_ResultsInRankOrder ==
    /\ (last.op = "searchConversations" /\ last.result.outcome = "resolves") =>
           /\ \A i, j \in DOMAIN last.result.items :
                  i < j => last.result.items[i].score <= last.result.items[j].score
           /\ \A i \in DOMAIN last.result.items :
                  RankOf(db.conversations_fts, ConversationColumns, last.query,
                         last.result.items[i].item, last.result.items[i].score)
    /\ (last.op = "searchCommands" /\ last.result.outcome = "resolves") =>
           /\ \A i, j \in DOMAIN last.result.items :
                  i < j =>
                      \/ last.result.items[i].score < last.result.items[j].score
                      \/ /\ last.result.items[i].score = last.result.items[j].score
                         /\ last.result.items[i].item.confidence
                                >= last.result.items[j].item.confidence
           /\ \A i \in DOMAIN last.result.items :
                  RankOf(db.commands_fts, CommandColumns, last.query,
                         last.result.items[i].item, last.result.items[i].score)

\* a command search has returned results of different ranks, all of one confidence
C20_Witness ==
    /\ last.op = "searchCommands" /\ last.result.outcome = "resolves"
    /\ \E i, j \in DOMAIN last.result.items :
           /\ i < j
           /\ last.result.items[i].score < last.result.items[j].score
           /\ last.result.items[i].item.confidence = last.result.items[j].item.confidence

\* the values the loop variable i of buildIndex takes
BatchStarts == { i \in 0..(Len(JsonFiles) - 1) : i % batchSize = 0 }

\* the tables after the batches that start before stop have been written to d
RECURSIVE WrittenBefore(_, _, _)
WrittenBefore(d, i, stop) ==
    IF i >= stop \/ i >= Len(JsonFiles) THEN d
    ELSE WrittenBefore(processBatch(d, Batch(i)), i + batchSize, stop)

\* C21: within one buildIndex call every .json file of the listing is in exactly one
\* batch, no batch has more than batchSize files, a file of a batch is read only when
\* all writes of the batches before it are in the store, and after the last batch the
\* progress count is the number of .json files
C21_BatchesStrictlyOrdered ==
    /\ \A f \in DOMAIN JsonFiles :
           Cardinality({ i \in BatchStarts :
                            \E k \in DOMAIN Batch(i) : Batch(i)[k] = JsonFiles[f] }) = 1
    /\ \A i \in BatchStarts : Len(Batch(i)) <= batchSize
    /\ bld[1].pc = "read" =>
           /\ bld[1].i \in BatchStarts
           /\ bld[1].processed = bld[1].i
           /\ db = WrittenBefore(EmptyDb, 0, bld[1].i)
    /\ bld[1].pc \in { "getConversations", "getMessages", "getCommands" } =>
           /\ bld[1].processed = Len(JsonFiles)
           /\ db = RebuiltIndex

\* the second batch is about to be read, with the rows of the first batch in the store
C21_Witness ==
    /\ bld[1].pc = "read" /\ bld[1].i > 0 /\ bld[1].k = 0
    /\ db.conversations # << >> /\ db.commands # << >>

\* the fuzzy snapshot of the tables d: all conversations, the first MessageSnapshotCap
\* messages, all commands
SnapshotOf(d) ==
    [ conversationFuse |-> Some(d.conversations),
      messageFuse |-> Some(Take(d.messages, MessageSnapshotCap)),
      commandFuse |-> Some(d.commands) ]

QueryMethods == { "searchConversations", "searchCommands", "fuzzySearchCommands", "getStats" }

\* C23: a step in which searchConversations, searchCommands, fuzzySearchCommands or
\* getStats answers, at any point of a build or between builds, leaves the six tables,
\* the fuzzy snapshot and the initialized flag as they were
C23_QueriesAreReadOnly ==
    [][ (last = NoCall /\ last'.op \in QueryMethods) =>
            /\ db' = db
            /\ fuse' = fuse
            /\ isInitialized' = isInitialized ]_vars

\* a search has answered between two steps of a build that has written rows
C23_Witness ==
    /\ last.op = "searchCommands" /\ last.result.outcome = "resolves"
    /\ bld[1].pc = "insertCommands"
    /\ db.conversations # << >>

\* a line of the content starts with '>'
StartsQuoteLine(s) == \E i \in DOMAIN s : (i = 1 \/ s[i - 1] = NL) /\ s[i] = ">"

\* the command shapes as the specification lists them: one of six tool names followed by
\* a word, '$ word', '--word', or a line starting with '>'
ListedShape(s) ==
    \/ \E name \in { Npm, Yarn, Pnpm, Git, Python, Node } : LitSpaceWord(s, name)
    \/ LitSpaceWord(s, << "$" >>)
    \/ LongFlag(s)
    \/ StartsQuoteLine(s)

\* C24: a content without a backtick that has one of the listed command shapes is
\* classified command, and the two copies of hasCommandPatterns give the same answer
\* for every content
C24_ListedShapesAreCommands ==
    /\ (last.op = "detectContentType" /\ Tick \notin Range(last.content)
            /\ ListedShape(last.content)) => last.content_type = "command"
    /\ last.op = "hasCommandPatterns" => last.index = last.server

\* C25: the feed of the unified search holds no two entries with the same
\* conversation_id, is sorted ascending by search_score, and has at most limit entries
C25_UnifiedFeedDeduplicated ==
    (last.op = "unified_search_conversations"
         /\ last.response.search_method = "unified_indexed") =>
        /\ \A i, j \in DOMAIN last.response.items :
               last.response.items[i].conversation_id
                   = last.response.items[j].conversation_id => i = j
        /\ \A i, j \in DOMAIN last.response.items :
               i < j => last.response.items[i].search_score
                           <= last.response.items[j].search_score
        /\ Len(last.response.items) <= ArgLimit(last.args, DefaultUnifiedLimit)

\* C26: whenever the initialized flag is true and no buildIndex call is in progress, also
\* after a rebuild that failed, the commands of the fuzzy snapshot are the command rows
\* of the store, and a fuzzySearchCommands call returns only commands that are rows of
\* the store
C26_SnapshotCommandsAreStored ==
    (isInitialized /\ bld[1].pc = "idle") =>
        /\ fuse.commandFuse = Some(db.commands)
        /\ (last.op = "fuzzySearchCommands" /\ last.result.outcome = "resolves") =>
               \A j \in DOMAIN last.result.items :
                   last.result.items[j].item \in Range(db.commands)

\* processing the i-th file raises an error: it cannot be read or parsed, or its messages
\* array holds a null entry
Raises(i) ==
    \/ ~archive[i].ok
    \/ /\ IsSome(archive[i].messages)
       /\ \E j \in DOMAIN archive[i].messages[1] : archive[i].messages[1][j] = None

\* C27: after a build, a file whose processing raised an error has no conversation row,
\* and, when no other file carries its conversation id, no message or command row
C27_FailedFileContributesNothing ==
    (bld[1].pc = "idle" /\ lastBuild = "ok") =>
        \A i \in { k \in DOMAIN archive : Raises(k) } :
            /\ \A r \in Range(db.conversations) : r.file_path # FileName(i)
            /\ (archive[i].ok /\ FilesOf(OrElse(archive[i].conversation_id, FileName(i))) = { i }) =>
                   /\ \A r \in Range(db.messages) :
                          r.conversation_id # OrElse(archive[i].conversation_id, FileName(i))
                   /\ \A r \in Range(db.commands) :
                          r.conversation_id # OrElse(archive[i].conversation_id, FileName(i))

\* the file named file has a message at index i (from 0) whose content satisfies P
MessageOfFile(file, i, P(_)) ==
    /\ IsSome(ReadJson(file).messages)
    /\ i < Len(ReadJson(file).messages[1])
    /\ IsSome(ReadJson(file).messages[1][i + 1])
    /\ P(ReadJson(file).messages[1][i + 1][1].content)

\* C28: after a build that ended well every message row has a conversation row with its
\* conversation_id, and its content is the content at message_index in the file that
\* the file_path of that conversation row names; every command row is text of the
\* message at its message_index in that file; also when two files share a conversation_id
C28_RowsBelongToTheirFile ==
    (bld[1].pc = "idle" /\ lastBuild = "ok") =>
        /\ \A m \in Range(db.messages) :
               \E c \in Range(db.conversations) :
                   /\ c.conversation_id = m.conversation_id
                   /\ MessageOfFile(c.file_path, m.message_index,
                                    LAMBDA content : content = m.content)
        /\ \A k \in Range(db.commands) :
               \E c \in Range(db.conversations) :
                   /\ c.conversation_id = k.conversation_id
                   /\ MessageOfFile(c.file_path, k.message_index,
                                    LAMBDA content : includes(content, k.command))

\* get_conversation_snippet({conversation_id: id}) on the archive returns the conversation
Fetchable(id) ==
    handler("get_conversation_snippet", db, "ok",
            [ conversation_id |-> id, message_start |-> None, message_count |-> None ]).outcome
        = "payload"

\* C29: every conversation_id in the response of an indexed search_conversations call
\* can be fetched with get_conversation_snippet on the same archive, also an identifier
\* that is the name of a file without metadata.conversation_id
C29_SearchResultsAreFetchable ==
    (last.op = "search_conversations" /\ last.response.outcome = "payload"
         /\ last.response.search_method = "indexed") =>
        \A j \in DOMAIN last.response.items :
            Fetchable(last.response.items[j].conversation_id)

\* C30: when two build_search_index calls over the same archive have overlapped in any
\* way and both have completed, getStats reports the conversation, message and command
\* counts of a single build
C30_OverlappingBuildsSameCounts ==
    (/\ bld[1].pc = "idle" /\ bld[2].pc = "idle" /\ lastBuild = "ok"
     /\ last.op = "getStats") =>
        last.stats = getStats(RebuiltIndex)

\* both calls have completed after writing the same rows side by side (the mirrors,
\* which have no key, hold them twice), and getStats has answered
C30_Witness ==
    /\ bld[1].pc = "idle" /\ bld[2].pc = "idle" /\ lastBuild = "ok"
    /\ last.op = "getStats" /\ last.stats.commands > 0
    /\ Len(db.commands_fts) > Len(RebuiltIndex.commands_fts)

====
